---- MODULE Spec2Model ----
(***************************************************************************)
(* A model of the retrieval-augmented-generation toolkit: the cached       *)
(* search wrapper of the retriever layer, the plugin registry, the chat    *)
(* prompt and its templating, and the iterative BM25 searcher.             *)
(* Every subsystem has its own variables, initial predicate and next-state *)
(* relation; a specification of one subsystem leaves the others idle.      *)
(***************************************************************************)
EXTENDS Integers, Sequences, FiniteSets, TLC

VARIABLES
    \* retriever layer (kylin/retriever/retriever_base.py)
    cache,          \* RETRIEVAL_CACHE: key -> None or the stored pair (result, key)
    returned,       \* keys for which a cache-enabled search call has returned
    call,           \* the last search call: its arguments, what it invoked, its outcome
    \* plugin registry (librarian/utils.py, class Register)
    items,          \* Register._items: main name -> entry
    shortcuts,      \* Register._shortcuts: alias -> main name
    regOp,          \* the last registry operation and its outcome
    \* chat prompt (kylin/prompt/prompt_base.py, class ChatPrompt)
    cp,             \* one ChatPrompt: its system turn, history and demonstrations
    cpOp,           \* the last operation on it and its outcome
    \* templating (kylin/prompt/template.py, HFTemplate.render_to_ids)
    render,         \* one render_to_ids call: its arguments, locals and position
    \* iterative searcher (kylin/searchers/bm25_searcher.py, BM25Searcher.search)
    bm25,           \* one search call: its configuration, locals, position and calls made
    \* generation configuration (flexrag/models/model_base.py, GenerationConfig)
    gen,            \* one construction of a GenerationConfig: its arguments and outcome
    \* assistant (kylin/assistant/assistant.py, class Assistant)
    asst,           \* one Assistant: its configuration, base templates and last answer call
    \* parallel fan-out (flexrag/models/openai_model.py, kylin/retriever/web_retrievers/web_downloader.py)
    fan,            \* one fan-out call: its inputs, the per-item requests and what it returned
    \* default asynchronous operations (flexrag/models/model_base.py, kylin/retriever/retriever_base.py)
    aio,            \* the caller's event loop: one default async operation and the steps of another task
    \* dense vector index (kylin/retriever/index/faiss_index.py)
    dix,            \* the index object, the index file at index_path and the outcome of the last operation
    \* registry merge (librarian/utils.py, Register.__add__)
    mrg,            \* two registries, and the registry their merge returned
    \* web downloader (kylin/retriever/web_retrievers/web_downloader.py)
    dl,             \* one SimpleWebDownloader.download call and its GET attempts
    \* retrieval metrics (kylin/metrics/retrieval_metrics.py)
    sr,             \* one SuccessRate.compute call: its batch and what it returned
    \* scoped environment variable (librarian/utils.py, set_env_var)
    ev,             \* the environment, the open set_env_var blocks and the error in flight
    \* full-text search engine retriever (kylin/retriever/elastic_retriever.py)
    es,             \* one search of an ElasticRetriever, its msearch attempts and the error-state file
    \* time meter (librarian/utils.py, TimeMeter)
    tm,             \* the shared timers dict, the managed lists and the callers of wrapped functions
    \* rerank API ranker (flexrag/ranker/cohere_ranker.py)
    rk,             \* one CohereRanker._rank or _async_rank call: the candidates, the endpoint results and the scores returned
    \* chat prompt instances and their list objects (kylin/prompt/prompt_base.py)
    sh,             \* the list objects of the heap and the ChatPrompt instances that refer to them
    \* logger manager (librarian/utils.py, LoggerManager)
    lm,             \* the class attributes of LoggerManager and the threads constructing it
    \* index-build tool (scripts/prepare_index/prepare_index.py)
    tool            \* one run of main: its configuration, its position and the retriever operations it has invoked

cacheVars == <<cache, returned, call>>
regVars == <<items, shortcuts, regOp>>
promptVars == <<cp, cpOp>>
renderVars == <<render>>
searcherVars == <<bm25>>
generationVars == <<gen>>
assistantVars == <<asst>>
fanOutVars == <<fan>>
asyncVars == <<aio>>
denseVars == <<dix>>
mergeVars == <<mrg>>
downloadVars == <<dl>>
metricVars == <<sr>>
envVars == <<ev>>
elasticVars == <<es>>
meterVars == <<tm>>
rankerVars == <<rk>>
sharedVars == <<sh>>
loggerVars == <<lm>>
toolVars == <<tool>>

vars == <<cache, returned, call, items, shortcuts, regOp, cp, cpOp, render,
         bm25, gen, asst, fan, aio, dix, mrg, dl, sr, ev, es, tm, rk, sh, lm,
         tool>>

\* what an operation of one subsystem leaves alone
nonCacheVars ==
    <<regVars, promptVars, renderVars, searcherVars, generationVars,
      assistantVars, fanOutVars, asyncVars, denseVars, mergeVars,
      downloadVars, metricVars, envVars, elasticVars, meterVars, rankerVars,
      sharedVars, loggerVars, toolVars>>
nonRegVars ==
    <<cacheVars, promptVars, renderVars, searcherVars, generationVars,
      assistantVars, fanOutVars, asyncVars, denseVars, mergeVars,
      downloadVars, metricVars, envVars, elasticVars, meterVars, rankerVars,
      sharedVars, loggerVars, toolVars>>
nonPromptVars ==
    <<cacheVars, regVars, renderVars, searcherVars, generationVars,
      assistantVars, fanOutVars, asyncVars, denseVars, mergeVars,
      downloadVars, metricVars, envVars, elasticVars, meterVars, rankerVars,
      sharedVars, loggerVars, toolVars>>
nonRenderVars ==
    <<cacheVars, regVars, promptVars, searcherVars, generationVars,
      assistantVars, fanOutVars, asyncVars, denseVars, mergeVars,
      downloadVars, metricVars, envVars, elasticVars, meterVars, rankerVars,
      sharedVars, loggerVars, toolVars>>
nonSearcherVars ==
    <<cacheVars, regVars, promptVars, renderVars, generationVars,
      assistantVars, fanOutVars, asyncVars, denseVars, mergeVars,
      downloadVars, metricVars, envVars, elasticVars, meterVars, rankerVars,
      sharedVars, loggerVars, toolVars>>
nonGenerationVars ==
    <<cacheVars, regVars, promptVars, renderVars, searcherVars,
      assistantVars, fanOutVars, asyncVars, denseVars, mergeVars,
      downloadVars, metricVars, envVars, elasticVars, meterVars, rankerVars,
      sharedVars, loggerVars, toolVars>>
nonAssistantVars ==
    <<cacheVars, regVars, promptVars, renderVars, searcherVars,
      generationVars, fanOutVars, asyncVars, denseVars, mergeVars,
      downloadVars, metricVars, envVars, elasticVars, meterVars, rankerVars,
      sharedVars, loggerVars, toolVars>>
nonFanOutVars ==
    <<cacheVars, regVars, promptVars, renderVars, searcherVars,
      generationVars, assistantVars, asyncVars, denseVars, mergeVars,
      downloadVars, metricVars, envVars, elasticVars, meterVars, rankerVars,
      sharedVars, loggerVars, toolVars>>
nonAsyncVars ==
    <<cacheVars, regVars, promptVars, renderVars, searcherVars,
      generationVars, assistantVars, fanOutVars, denseVars, mergeVars,
      downloadVars, metricVars, envVars, elasticVars, meterVars, rankerVars,
      sharedVars, loggerVars, toolVars>>
nonDenseVars ==
    <<cacheVars, regVars, promptVars, renderVars, searcherVars,
      generationVars, assistantVars, fanOutVars, asyncVars, mergeVars,
      downloadVars, metricVars, envVars, elasticVars, meterVars, rankerVars,
      sharedVars, loggerVars, toolVars>>
nonMergeVars ==
    <<cacheVars, regVars, promptVars, renderVars, searcherVars,
      generationVars, assistantVars, fanOutVars, asyncVars, denseVars,
      downloadVars, metricVars, envVars, elasticVars, meterVars, rankerVars,
      sharedVars, loggerVars, toolVars>>
nonDownloadVars ==
    <<cacheVars, regVars, promptVars, renderVars, searcherVars,
      generationVars, assistantVars, fanOutVars, asyncVars, denseVars,
      mergeVars, metricVars, envVars, elasticVars, meterVars, rankerVars,
      sharedVars, loggerVars, toolVars>>
nonMetricVars ==
    <<cacheVars, regVars, promptVars, renderVars, searcherVars,
      generationVars, assistantVars, fanOutVars, asyncVars, denseVars,
      mergeVars, downloadVars, envVars, elasticVars, meterVars, rankerVars,
      sharedVars, loggerVars, toolVars>>
nonEnvVars ==
    <<cacheVars, regVars, promptVars, renderVars, searcherVars,
      generationVars, assistantVars, fanOutVars, asyncVars, denseVars,
      mergeVars, downloadVars, metricVars, elasticVars, meterVars,
      rankerVars, sharedVars, loggerVars, toolVars>>
nonElasticVars ==
    <<cacheVars, regVars, promptVars, renderVars, searcherVars,
      generationVars, assistantVars, fanOutVars, asyncVars, denseVars,
      mergeVars, downloadVars, metricVars, envVars, meterVars, rankerVars,
      sharedVars, loggerVars, toolVars>>
nonMeterVars ==
    <<cacheVars, regVars, promptVars, renderVars, searcherVars,
      generationVars, assistantVars, fanOutVars, asyncVars, denseVars,
      mergeVars, downloadVars, metricVars, envVars, elasticVars, rankerVars,
      sharedVars, loggerVars, toolVars>>
nonRankerVars ==
    <<cacheVars, regVars, promptVars, renderVars, searcherVars,
      generationVars, assistantVars, fanOutVars, asyncVars, denseVars,
      mergeVars, downloadVars, metricVars, envVars, elasticVars, meterVars,
      sharedVars, loggerVars, toolVars>>
nonSharedVars ==
    <<cacheVars, regVars, promptVars, renderVars, searcherVars,
      generationVars, assistantVars, fanOutVars, asyncVars, denseVars,
      mergeVars, downloadVars, metricVars, envVars, elasticVars, meterVars,
      rankerVars, loggerVars, toolVars>>
nonLoggerVars ==
    <<cacheVars, regVars, promptVars, renderVars, searcherVars,
      generationVars, assistantVars, fanOutVars, asyncVars, denseVars,
      mergeVars, downloadVars, metricVars, envVars, elasticVars, meterVars,
      rankerVars, sharedVars, toolVars>>
nonToolVars ==
    <<cacheVars, regVars, promptVars, renderVars, searcherVars,
      generationVars, assistantVars, fanOutVars, asyncVars, denseVars,
      mergeVars, downloadVars, metricVars, envVars, elasticVars, meterVars,
      rankerVars, sharedVars, loggerVars>>

\* Python's None
None == [none |-> TRUE]

\* ---------------------------------------------------------------- helpers

Min(a, b) == IF a <= b THEN a ELSE b

Range(s) == {s[i] : i \in 1..Len(s)}

\* all sequences over S of length 0..n
SeqsUpTo(S, n) == UNION {[1..k -> S] : k \in 0..n}

\* [n for n, r in enumerate(results) if r is None], from position i on
RECURSIVE NoneIndices(_, _)
NoneIndices(results, i) ==
    IF i > Len(results) THEN <<>>
    ELSE (IF results[i] = None THEN <<i>> ELSE <<>>) \o NoneIndices(results, i + 1)

\* ------------------------------------------------------- retriever: cache

\* bounds of the retriever model
MaxBatch == 2       \* longest query batch of one search call
MaxPreCached == 2   \* most entries the persistent cache holds at start
BatchSize == 1      \* LocalRetrieverConfig.batch_size of the modelled retriever

Queries == {"q1", "q2"}
TopKs == {10}
\* extra keyword arguments of a search call: none, or no_preprocess=True
KwargSets == {{}, {"no_preprocess"}}
TheCfg == "cfg"

\* hashkey(cfg=, query=, top_k=, **search_kwargs): the keyword items sorted by
\* name, so the key does not depend on the order the arguments were given in
hashkey(cfg, q, top_k, kw) == [cfg |-> cfg, query |-> q, top_k |-> top_k, kwargs |-> kw]

Keys == {hashkey(TheCfg, q, k, kw) : q \in Queries, k \in TopKs, kw \in KwargSets}

\* query_preprocess_pipeline(q): the configured chain of text transforms
Preprocess(q) == CASE q = "q1" -> "p1" [] q = "q2" -> "p2" [] OTHER -> q

\* what the backend finds for one query: the store's answer when it was asked,
\* "stored" for an entry the persistent cache held at start, "now" in this run
SearchBatchResult(q, top_k, when) == [query |-> q, top_k |-> top_k, when |-> when]

\* search_batch of the backend: one context list per query of the batch
search_batch(batch, top_k) ==
    [i \in 1..Len(batch) |-> SearchBatchResult(batch[i], top_k, "now")]

RECURSIVE Flatten(_)
Flatten(ss) == IF ss = <<>> THEN <<>> ELSE Head(ss) \o Flatten(Tail(ss))

\* LocalRetriever.search (the function batched_cache wraps): preprocess each
\* query unless no_preprocess, then one search_batch call per batch_size slice
LocalSearch(query, top_k, kw) ==
    LET q2 == IF "no_preprocess" \in kw THEN query
              ELSE [i \in 1..Len(query) |-> Preprocess(query[i])]
        nb == (Len(q2) + BatchSize - 1) \div BatchSize
        batches == [b \in 1..nb |->
                      SubSeq(q2, (b - 1) * BatchSize + 1, Min(b * BatchSize, Len(q2)))]
    IN  [sb_calls |-> batches,
         results |-> Flatten([b \in 1..nb |-> search_batch(batches[b], top_k)])]

\* the value line 74 stores: the pair (r, key); its item 0 is r
StoredPair(r, key) == [r |-> r, key |-> key]

\* PersistentCache.get(key, default): the stored value, or default on a miss
CacheGet(c, key, default) == IF c[key] = None THEN default ELSE c[key]

\* CachedSearch with the lookup lost: every query is taken for a miss,
\* recomputed and written back
CachedSearchIgnoringCache(c, query, top_k, kw) ==
    LET keys == [i \in 1..Len(query) |-> hashkey(TheCfg, query[i], top_k, kw)]
        under == LocalSearch(query, top_k, kw)
    IN  [outcome |-> "ok", results |-> under.results,
         func_calls |-> IF query = <<>> THEN <<>> ELSE <<query>>,
         sb_calls |-> under.sb_calls,
         cache |-> [k \in Keys |->
                      IF \E i \in 1..Len(query) : keys[i] = k
                      THEN StoredPair(under.results[CHOOSE i \in 1..Len(query) : keys[i] = k], k)
                      ELSE c[k]]]

\* batched_cache.wrapper, cache enabled, lines 61-76
CachedSearch(c, query, top_k, kw) ==
    LET keys == [i \in 1..Len(query) |-> hashkey(TheCfg, query[i], top_k, kw)]
        got == [i \in 1..Len(query) |-> CacheGet(c, keys[i], None)]
    IN  IF \E i \in 1..Len(query) : got[i] = None
        THEN \* line 65 subscripts the default None: TypeError
             [outcome |-> "TypeError", results |-> <<>>, func_calls |-> <<>>,
              sb_calls |-> <<>>, cache |-> c]
        ELSE LET results == [i \in 1..Len(query) |-> got[i].r]
                 new_indices == NoneIndices(results, 1)
                 new_query == [j \in 1..Len(new_indices) |-> query[new_indices[j]]]
                 under == LocalSearch(new_query, top_k, kw)
                 n_new == Min(Len(new_indices), Len(under.results))
                 PosOf(i) == CHOOSE j \in 1..n_new : new_indices[j] = i
                 Filled(i) == \E j \in 1..n_new : new_indices[j] = i
                 KeyFilled(k) == \E j \in 1..n_new : keys[new_indices[j]] = k
                 LastFor(k) == CHOOSE j \in 1..n_new :
                                  /\ keys[new_indices[j]] = k
                                  /\ \A j2 \in 1..n_new :
                                        keys[new_indices[j2]] = k => j2 <= j
             IN  IF new_query = <<>>
                 THEN [outcome |-> "ok", results |-> results, func_calls |-> <<>>,
                       sb_calls |-> <<>>, cache |-> c]
                 ELSE [outcome |-> "ok",
                       results |-> [i \in 1..Len(query) |->
                                      IF Filled(i) THEN under.results[PosOf(i)]
                                      ELSE results[i]],
                       func_calls |-> <<new_query>>,
                       sb_calls |-> under.sb_calls,
                       cache |-> [k \in Keys |->
                                    IF KeyFilled(k)
                                    THEN StoredPair(under.results[LastFor(k)], k)
                                    ELSE c[k]]]

\* batched_cache.wrapper, lines 46-76
Wrapper(c, query, top_k, disable_cache, kw) ==
    IF disable_cache
    THEN LET under == LocalSearch(query, top_k, kw)
         IN  [outcome |-> "ok", results |-> under.results,
              func_calls |-> <<query>>, sb_calls |-> under.sb_calls, cache |-> c]
    ELSE CachedSearch(c, query, top_k, kw)

NoCall == [kind |-> "none"]

CacheInit ==
    /\ \E present \in {P \in SUBSET Keys : Cardinality(P) <= MaxPreCached} :
          cache = [key \in Keys |->
                     IF key \in present
                     THEN StoredPair(SearchBatchResult(
                              IF "no_preprocess" \in key.kwargs THEN key.query
                              ELSE Preprocess(key.query), key.top_k, "stored"), key)
                     ELSE None]
    /\ returned = {}
    /\ call = NoCall

\* the retriever layer before any call, with an empty cache
CacheIdle ==
    /\ cache = [key \in Keys |-> None]
    /\ returned = {}
    /\ call = NoCall

\* a search call through the wrapper
Search(query, top_k, disable_cache, kw) ==
    LET r == Wrapper(cache, query, top_k, disable_cache, kw)
    IN  /\ cache' = r.cache
        /\ call' = [kind |-> "search", query |-> query, top_k |-> top_k,
                    kwargs |-> kw, disable_cache |-> disable_cache,
                    outcome |-> r.outcome, results |-> r.results,
                    func_calls |-> r.func_calls, sb_calls |-> r.sb_calls,
                    cache_before |-> cache, returned_before |-> returned]
        /\ returned' = IF r.outcome = "ok" /\ ~disable_cache
                       THEN returned \cup
                            {hashkey(TheCfg, query[i], top_k, kw) : i \in 1..Len(query)}
                       ELSE returned

SearchCall ==
    \E query \in SeqsUpTo(Queries, MaxBatch), top_k \in TopKs,
       disable_cache \in BOOLEAN, kw \in KwargSets :
        Search(query, top_k, disable_cache, kw) /\ UNCHANGED nonCacheVars

CacheNext == SearchCall

\* what search hands to search_batch for query q under the call's kwargs
Sent(q, kw) == IF "no_preprocess" \in kw THEN q ELSE Preprocess(q)

\* the queries the call's search_batch invocations were given
SearchedInCall == UNION {Range(call.sb_calls[b]) : b \in 1..Len(call.sb_calls)}

CallKey(i) == hashkey(TheCfg, call.query[i], call.top_k, call.kwargs)

\* C1: once a cache-enabled search call for a key has returned, a later
\* cache-enabled call with the same key (configuration, query, top_k, kwargs)
\* does not hand that query to search_batch, whatever the cache held at start;
\* a call with disable_cache=True hands every query of its batch to
\* search_batch, cached or not.
C1_CachedKeyNotSearchedAgain ==
    call.kind = "search" =>
        /\ ~call.disable_cache =>
              \A i \in 1..Len(call.query) :
                  CallKey(i) \in call.returned_before
                      => Sent(call.query[i], call.kwargs) \notin SearchedInCall
        /\ call.disable_cache =>
              /\ call.outcome = "ok"
              /\ \A i \in 1..Len(call.query) :
                     Sent(call.query[i], call.kwargs) \in SearchedInCall

\* a second cache-enabled call for a key an earlier call returned: it returns
\* without any search_batch invocation
C1_Witness ==
    /\ call.kind = "search"
    /\ ~call.disable_cache
    /\ call.outcome = "ok"
    /\ Len(call.query) > 0
    /\ \A i \in 1..Len(call.query) : CallKey(i) \in call.returned_before
    /\ call.sb_calls = <<>>

\* the positions of the call's batch whose key the cache did not hold
RECURSIVE MissIndices(_)
MissIndices(i) ==
    IF i > Len(call.query) THEN <<>>
    ELSE (IF call.cache_before[CallKey(i)] = None THEN <<i>> ELSE <<>>)
         \o MissIndices(i + 1)

\* C2: a cache-enabled search call makes at most one underlying call, whose
\* query list is exactly the subsequence of the batch whose keys the cache did
\* not hold, and returns one result per query of the batch: the cached value
\* where the key was present, the underlying result for that query otherwise.
C2_MissesRecomputedAndSpliced ==
    (call.kind = "search" /\ ~call.disable_cache) =>
        LET miss == MissIndices(1)
            missed == [j \in 1..Len(miss) |-> call.query[miss[j]]]
        IN  /\ call.outcome = "ok"
            /\ call.func_calls = IF miss = <<>> THEN <<>> ELSE <<missed>>
            /\ Len(call.results) = Len(call.query)
            /\ \A i \in 1..Len(call.query) :
                   call.results[i] =
                       IF call.cache_before[CallKey(i)] = None
                       THEN SearchBatchResult(Sent(call.query[i], call.kwargs),
                                              call.top_k, "now")
                       ELSE call.cache_before[CallKey(i)].r


\* ---------------------------------------------------------------- registry

\* bounds of the registry model
MaxAliases == 2     \* most short names given to one registration
MaxChoices == 2     \* longest list of names in a discriminator

\* the strings used as names, and those of them that are class names (the
\* main name of a registration is the name of the registered class)
Names == {"a", "b", "c"}
ClassNames == {"a", "b"}

\* a dict with one key set (d[key] = value)
DictSet(d, key, value) ==
    [k \in DOMAIN d \cup {key} |-> IF k = key THEN value ELSE d[k]]

\* for name in short_names: self._shortcuts[name] = main_name
RECURSIVE SetShortcuts(_, _, _)
SetShortcuts(d, short_names, main_name) ==
    IF short_names = <<>> THEN d
    ELSE SetShortcuts(DictSet(d, Head(short_names), main_name),
                      Tail(short_names), main_name)

\* the name-conflict assertions of registe_item, lines 84-88
NameConflict(its, shs, main_name, short_names) ==
    \/ main_name \in DOMAIN its
    \/ main_name \in DOMAIN shs
    \/ \E i \in 1..Len(short_names) :
          short_names[i] \in DOMAIN its \/ short_names[i] \in DOMAIN shs

\* config_class of a registration: a configuration type, or "None"
ConfigClasses == {"None", "Config"}

\* the entry line 91 stores; the item is the class named main_name
Entry(main_name, short_names, config_class) ==
    [item |-> main_name, main_name |-> main_name,
     short_names |-> short_names, config_class |-> config_class]

\* Register.names / __contains__
RegNames(its, shs) == DOMAIN its \cup DOMAIN shs

\* Register.__getitem__: KeyError for a key that is neither a main name nor
\* an alias
GetItem(its, shs, key) ==
    IF key \in DOMAIN its THEN its[key]
    ELSE IF key \in DOMAIN shs THEN its[shs[key]]
    ELSE [error |-> "KeyError"]

RegInit ==
    /\ items = <<>>
    /\ shortcuts = <<>>
    /\ regOp = [op |-> "none"]

\* Register.__call__(*short_names, config_class)(item)
RegisterItem(main_name, short_names, config_class) ==
    IF NameConflict(items, shortcuts, main_name, short_names)
    THEN /\ regOp' = [op |-> "register", main_name |-> main_name,
                      short_names |-> short_names, outcome |-> "AssertionError",
                      items_before |-> items, shortcuts_before |-> shortcuts]
         /\ UNCHANGED <<items, shortcuts>>
    ELSE /\ items' = DictSet(items, main_name,
                             Entry(main_name, short_names, config_class))
         /\ shortcuts' = SetShortcuts(shortcuts, short_names, main_name)
         /\ regOp' = [op |-> "register", main_name |-> main_name,
                      short_names |-> short_names, outcome |-> "ok",
                      items_before |-> items, shortcuts_before |-> shortcuts]

RegisterCall ==
    \E main_name \in ClassNames, short_names \in SeqsUpTo(Names, MaxAliases),
       config_class \in ConfigClasses :
        RegisterItem(main_name, short_names, config_class) /\ UNCHANGED nonRegVars

\* the default-constructed configuration of the backend named main_name
DefaultConfig(main_name) == [config_of |-> main_name]

\* Register.make_config: the nested configuration fields of the synthesized
\* type, keyed by the first short name of each entry that has a config class
\* (field "<short_names[0]>_config"); IndexError when such an entry has no
\* short name
MakeConfig(its, shs) ==
    LET withCfg == {m \in DOMAIN its : GetItem(its, shs, m).config_class # "None"}
    IN  IF \E m \in withCfg : Len(GetItem(its, shs, m).short_names) = 0
        THEN [outcome |-> "IndexError"]
        ELSE [outcome |-> "ok",
              fields |-> [f \in {GetItem(its, shs, m).short_names[1] : m \in withCfg} |->
                            DefaultConfig(CHOOSE m \in withCfg :
                                            GetItem(its, shs, m).short_names[1] = f)]]

\* getattr(config, cfg_name, None)
GetAttr(fields, cfg_name) ==
    IF cfg_name \in DOMAIN fields THEN fields[cfg_name] ELSE None

\* one instantiation self[name]["item"](sub_cfg, **kwargs), lines 180-185 and
\* 187-192: IndexError when the entry has no short name
LoadOne(its, shs, fields, name) ==
    LET e == GetItem(its, shs, name)
    IN  IF Len(e.short_names) = 0 THEN [error |-> "IndexError"]
        ELSE [item |-> e.item, sub_cfg |-> GetAttr(fields, e.short_names[1])]

\* the loop of lines 177-185 over the rest of the chosen names
RECURSIVE LoadList(_, _, _, _, _)
LoadList(its, shs, fields, names, loaded) ==
    IF names = <<>> THEN [outcome |-> "ok", loaded |-> loaded]
    ELSE IF Head(names) \in RegNames(its, shs)
         THEN LET one == LoadOne(its, shs, fields, Head(names))
              IN  IF "error" \in DOMAIN one
                  THEN [outcome |-> one.error, loaded |-> loaded]
                  ELSE LoadList(its, shs, fields, Tail(names), Append(loaded, one))
         ELSE LoadList(its, shs, fields, Tail(names), loaded)

\* the discriminator of a configuration: unset, one name or a list of names
Choice == {[kind |-> "unset"]}
          \cup {[kind |-> "single", name |-> n] : n \in Names}
          \cup {[kind |-> "list", names |-> ns] : ns \in SeqsUpTo(Names, MaxChoices)}

\* Register.load(config): returns None, one instance or a list of instances
Load(its, shs, fields, choice) ==
    IF choice.kind = "unset" THEN [outcome |-> "ok", returns |-> "None", loaded |-> <<>>]
    ELSE IF choice.kind = "list"
    THEN LET r == LoadList(its, shs, fields, choice.names, <<>>)
         IN  [outcome |-> r.outcome, returns |-> "list", loaded |-> r.loaded]
    ELSE IF choice.name \in RegNames(its, shs)
    THEN LET one == LoadOne(its, shs, fields, choice.name)
         IN  IF "error" \in DOMAIN one
             THEN [outcome |-> one.error, returns |-> "instance", loaded |-> <<>>]
             ELSE [outcome |-> "ok", returns |-> "instance", loaded |-> <<one>>]
    ELSE [outcome |-> "ValueError", returns |-> "instance", loaded |-> <<>>]

\* make_config, then load on a configuration of that type with the
\* discriminator set to choice
MakeConfigAndLoad(choice) ==
    LET mc == MakeConfig(items, shortcuts)
    IN  /\ regOp' = IF mc.outcome # "ok"
                    THEN [op |-> "load", choice |-> choice,
                          make_config |-> mc.outcome]
                    ELSE LET r == Load(items, shortcuts, mc.fields, choice)
                         IN  [op |-> "load", choice |-> choice, make_config |-> "ok",
                              fields |-> mc.fields, outcome |-> r.outcome,
                              returns |-> r.returns, loaded |-> r.loaded]
        /\ UNCHANGED <<items, shortcuts>>

LoadCall == \E choice \in Choice : MakeConfigAndLoad(choice) /\ UNCHANGED nonRegVars

RegNext == RegisterCall \/ LoadCall

\* the registry before any registration
RegIdle == RegInit

\* ------------------------------------------------------------- chat prompt

\* bounds of the prompt model
MaxHistory == 3     \* update is not called on a longer history
MaxDemos == 2       \* most demonstrations a prompt is constructed with
MaxPopIndex == 1    \* pop indices are -(MaxPopIndex+1)..MaxPopIndex

\* ChatTurn(role, content)
ChatTurn(role, content) == [cls |-> "ChatTurn", role |-> role, content |-> content]

\* a Python list object holding elems
PyList(elems) == [cls |-> "list", elems |-> elems]

\* ChatTurn.to_dict
TurnToDict(turn) == [role |-> turn.role, content |-> turn.content]

\* the turns update is called with, and the demonstrations a prompt is built with
HistoryTurns == {ChatTurn("user", "q"), ChatTurn("assistant", "a")}
DemoPool == {<<ChatTurn("user", "dq"), ChatTurn("assistant", "da")>>,
             <<ChatTurn("user", "dq")>>}
SystemTurn == ChatTurn("system", "S")

\* the arguments update(chat_turn: ChatTurn | list[ChatTurn]) accepts
UpdateArgs == HistoryTurns
              \cup {PyList(<<ChatTurn("user", "q"), ChatTurn("assistant", "a")>>)}

\* ChatPrompt(system, history, demonstrations)
ChatPrompt(system, history, demonstrations) ==
    [system |-> system, history |-> history, demonstrations |-> demonstrations]

\* the loops of to_list over a list of turns: turn.to_dict() of each element,
\* AttributeError for an element that is not a ChatTurn
RECURSIVE TurnsToDicts(_)
TurnsToDicts(turns) ==
    IF turns = <<>> THEN [outcome |-> "ok", data |-> <<>>]
    ELSE IF Head(turns).cls # "ChatTurn"
         THEN [outcome |-> "AttributeError", data |-> <<>>]
         ELSE LET rest == TurnsToDicts(Tail(turns))
              IN  IF rest.outcome # "ok" THEN rest
                  ELSE [outcome |-> "ok",
                        data |-> <<TurnToDict(Head(turns))>> \o rest.data]

\* ChatPrompt.to_list
ToList(p) ==
    LET sys == IF p.system = None THEN <<>>
               ELSE <<[role |-> "system", content |-> p.system.content]>>
        demos == TurnsToDicts(Flatten(p.demonstrations))
        hist == TurnsToDicts(p.history)
    IN  IF demos.outcome # "ok" THEN demos
        ELSE IF hist.outcome # "ok" THEN hist
        ELSE [outcome |-> "ok", data |-> sys \o demos.data \o hist.data]

\* list.pop(n): the element removed and the list left, IndexError when n is
\* out of range; a negative n counts from the end
ListPop(lst, n) ==
    LET idx == IF n < 0 THEN n + Len(lst) ELSE n
    IN  IF idx < 0 \/ idx >= Len(lst)
        THEN [outcome |-> "IndexError", rest |-> lst]
        ELSE [outcome |-> "ok", popped |-> lst[idx + 1],
              rest |-> SubSeq(lst, 1, idx) \o SubSeq(lst, idx + 2, Len(lst))]

PromptInit ==
    /\ \E system \in {None, SystemTurn}, demos \in SeqsUpTo(DemoPool, MaxDemos) :
          cp = ChatPrompt(system, <<>>, demos)
    /\ cpOp = [op |-> "none"]

\* a prompt nobody has constructed yet
PromptIdle ==
    /\ cp = ChatPrompt(None, <<>>, <<>>)
    /\ cpOp = [op |-> "none"]

\* ChatPrompt.update
Update(chat_turn) ==
    /\ Len(cp.history) < MaxHistory
    /\ cp' = [cp EXCEPT !.history = Append(@, chat_turn)]
    /\ cpOp' = [op |-> "update", outcome |-> "ok"]

\* ChatPrompt.pop_history
PopHistory(n) ==
    LET r == ListPop(cp.history, n)
    IN  /\ cp' = [cp EXCEPT !.history = r.rest]
        /\ cpOp' = [op |-> "pop_history", outcome |-> r.outcome]

\* ChatPrompt.pop_demonstration
PopDemonstration(n) ==
    LET r == ListPop(cp.demonstrations, n)
    IN  /\ cp' = [cp EXCEPT !.demonstrations = r.rest]
        /\ cpOp' = [op |-> "pop_demonstration", outcome |-> r.outcome]

\* ChatPrompt.clear
Clear(clear_system) ==
    /\ cp' = ChatPrompt(IF clear_system THEN None ELSE cp.system, <<>>, <<>>)
    /\ cpOp' = [op |-> "clear", outcome |-> "ok"]

PopIndices == (0 - (MaxPopIndex + 1))..MaxPopIndex

UpdateCall == \E t \in UpdateArgs : Update(t) /\ UNCHANGED nonPromptVars
PopHistoryCall == \E n \in PopIndices : PopHistory(n) /\ UNCHANGED nonPromptVars
PopDemonstrationCall ==
    \E n \in PopIndices : PopDemonstration(n) /\ UNCHANGED nonPromptVars
ClearCall == \E b \in BOOLEAN : Clear(b) /\ UNCHANGED nonPromptVars

\* ChatTurn.from_dict
TurnFromDict(chat_turn) == ChatTurn(chat_turn.role, chat_turn.content)

\* ChatPrompt.to_json: the document written; AttributeError when the prompt
\* has no system turn (None has no to_dict) or an element is not a ChatTurn
ToJson(p) ==
    LET hist == TurnsToDicts(p.history)
        demos == [i \in 1..Len(p.demonstrations) |-> TurnsToDicts(p.demonstrations[i])]
    IN  IF p.system = None THEN [outcome |-> "AttributeError"]
        ELSE IF hist.outcome # "ok" THEN [outcome |-> "AttributeError"]
        ELSE IF \E i \in 1..Len(demos) : demos[i].outcome # "ok"
        THEN [outcome |-> "AttributeError"]
        ELSE [outcome |-> "ok",
              data |-> [system |-> TurnToDict(p.system),
                        history |-> hist.data,
                        demonstrations |-> [i \in 1..Len(demos) |-> demos[i].data]]]

\* ChatPrompt.from_json of a document that is an object: every dict becomes
\* a ChatTurn (TypeError for a null system), then __init__ looks at
\* demonstrations[0][0] (IndexError when the first demonstration is empty)
FromJson(data) ==
    IF data.system = None THEN [outcome |-> "TypeError"]
    ELSE IF Len(data.demonstrations) > 0 /\ Len(data.demonstrations[1]) = 0
    THEN [outcome |-> "IndexError"]
    ELSE [outcome |-> "ok",
          prompt |-> ChatPrompt(
              TurnFromDict(data.system),
              [i \in 1..Len(data.history) |-> TurnFromDict(data.history[i])],
              [i \in 1..Len(data.demonstrations) |->
                  [j \in 1..Len(data.demonstrations[i]) |->
                      TurnFromDict(data.demonstrations[i][j])]])]

\* to_json(path): the prompt is left alone, the file holds the document
ToJsonCall ==
    /\ cpOp' = [op |-> "to_json", outcome |-> ToJson(cp).outcome, saved |-> cp,
                file |-> IF ToJson(cp).outcome = "ok" THEN ToJson(cp).data ELSE None]
    /\ UNCHANGED cp
    /\ UNCHANGED nonPromptVars

\* from_json(path) of the file the last to_json wrote
FromJsonCall ==
    /\ cpOp.op = "to_json"
    /\ cpOp.outcome = "ok"
    /\ cpOp' = [op |-> "from_json", outcome |-> FromJson(cpOp.file).outcome,
                saved |-> cpOp.saved,
                loaded |-> IF FromJson(cpOp.file).outcome = "ok"
                           THEN FromJson(cpOp.file).prompt ELSE None]
    /\ UNCHANGED cp
    /\ UNCHANGED nonPromptVars

PromptNext ==
    \/ UpdateCall
    \/ PopHistoryCall
    \/ PopDemonstrationCall
    \/ ClearCall
    \/ ToJsonCall
    \/ FromJsonCall

\* -------------------------------------------------------------- templating

\* bounds of the templating model
MaxRenderHistory == 4   \* longest history of a rendered prompt
MaxLength == 6          \* max_length is None or 0..MaxLength
SmallModelMax == 2      \* a tokenizer with a small model_max_length

TRUNCATION_STRATEGIES == {"left", "right", "history", "demo", "auto"}

\* an optional integer: None, or SomeInt(n)
SomeInt(n) == [n |-> n]

\* the tokenizer: the tokens of one content string
ContentTokens(content) == IF content = "a" THEN 2 ELSE 1

\* tokenizer.apply_chat_template and the tokenizer on one message: a role
\* header and the tokens of the content
MessageTokens(msg) ==
    <<[header |-> msg.role]>>
    \o [j \in 1..ContentTokens(msg.content) |-> [text |-> msg.content, k |-> j]]

RECURSIVE MessagesTokens(_)
MessagesTokens(msgs) ==
    IF msgs = <<>> THEN <<>>
    ELSE MessageTokens(Head(msgs)) \o MessagesTokens(Tail(msgs))

\* HFTemplate.render_to_text with add_generation_prompt=True, as the tokens of
\* the rendered text; IndexError when the prompt is empty and the template has
\* no default system prompt (line 60 reads prompt_[0])
RenderToText(p, sys_prompt) ==
    LET lst == ToList(p)
        default == [role |-> "system", content |-> sys_prompt]
        p1 == IF Len(lst.data) = 0 /\ sys_prompt # "None"
              THEN <<default>> ELSE lst.data
    IN  IF lst.outcome # "ok" THEN [outcome |-> lst.outcome, tokens |-> <<>>]
        ELSE IF Len(p1) = 0 THEN [outcome |-> "IndexError", tokens |-> <<>>]
        ELSE LET p2 == IF p1[1].role # "system" /\ sys_prompt # "None"
                       THEN <<default>> \o p1 ELSE p1
             IN  [outcome |-> "ok",
                  tokens |-> MessagesTokens(p2) \o <<[header |-> "generation"]>>]

\* the tokenizer call of _encode: with truncation the ids are cut to
\* max_length, or to the tokenizer's model_max_length when max_length is None
\* (no cut when the tokenizer has none), on the side truncation_side
Tokenizer(tokens, max_length, truncation, truncation_side, model_max) ==
    LET limit == IF max_length # None THEN max_length ELSE model_max
    IN  IF ~truncation \/ limit = None \/ Len(tokens) <= limit.n THEN tokens
        ELSE IF truncation_side = "left"
             THEN SubSeq(tokens, Len(tokens) - limit.n + 1, Len(tokens))
             ELSE SubSeq(tokens, 1, limit.n)

\* render_to_ids._encode(prompt, max_length, truncation, truncation_side)
Encode(p, max_length, truncation, truncation_side, tpl) ==
    LET text == RenderToText(p, tpl.sys_prompt)
    IN  IF text.outcome # "ok" THEN [outcome |-> text.outcome, ids |-> <<>>]
        ELSE [outcome |-> "ok",
              ids |-> Tokenizer(text.tokens, max_length, truncation,
                                truncation_side, tpl.model_max)]

\* _encode(prompt): no truncation
EncodePlain(p, tpl) == Encode(p, None, FALSE, "left", tpl)

\* prompt.pop_history(0) twice
PopTwoHistory(p) == [p EXCEPT !.history = ListPop(ListPop(@, 0).rest, 0).rest]

\* prompt.pop_demonstration(0)
PopOneDemo(p) == [p EXCEPT !.demonstrations = ListPop(@, 0).rest]

\* the templates: HFTemplate with no default system prompt (Phi3Template) or
\* with one (Llama3Template, Qwen2Template), over a tokenizer with or without
\* a model_max_length
Templates == {[sys_prompt |-> sp, model_max |-> mm] :
                 sp \in {"None", "D"}, mm \in {None, SomeInt(SmallModelMax)}}

\* the demonstrations of a rendered prompt: none, one or two
RenderDemos == SeqsUpTo(DemoPool, 2)

RenderPrompts ==
    {ChatPrompt(system, history, demos) :
        system \in {None, SystemTurn},
        history \in SeqsUpTo(HistoryTurns, MaxRenderHistory),
        demos \in RenderDemos}

MaxLengths == {None} \cup {SomeInt(n) : n \in 0..MaxLength}

RenderIdle == render = [pc |-> "idle"]

\* where the call stands after an _encode whose result is e: the error
\* propagates, or the strategy's loop goes on with pre_ids = e.ids
AfterEncode(r, e, pc) ==
    IF e.outcome # "ok"
    THEN [r EXCEPT !.pc = "done", !.out = e.outcome]
    ELSE [r EXCEPT !.pc = pc, !.pre_ids = e.ids]

\* a pop on the local prompt: line 96 rebinds the local to a deep copy, so
\* the caller's prompt is another object and keeps its turns
SetWorkOfCaller(r, w) == [r EXCEPT !.work = w, !.prompt = w]
SetWork(r, w) == [r EXCEPT !.work = w]

\* the call returns ids
Return(r, ids) == [r EXCEPT !.pc = "done", !.out = "ok", !.ids = ids]

\* the call raises err
Raise(r, err) == [r EXCEPT !.pc = "done", !.out = err]

\* render_to_ids up to the first loop test: the deep copy, and for left, right
\* and no max_length the whole call
RenderStart(prompt, max_length, truncation, tpl) ==
    LET r0 == [pc |-> "start", prompt |-> prompt, work |-> prompt,
               max_length |-> max_length, truncation |-> truncation,
               tpl |-> tpl, pre_ids |-> <<>>, ids |-> None, out |-> "none",
               fell_back |-> FALSE]
        cut(side) == Encode(prompt, max_length, TRUE, side, tpl)
        plain == EncodePlain(prompt, tpl)
        one(e) == IF e.outcome = "ok" THEN Return(r0, e.ids) ELSE Raise(r0, e.outcome)
    IN  render' =
              IF max_length = None THEN one(plain)
              ELSE IF truncation = "left" THEN one(cut("left"))
              ELSE IF truncation = "right" THEN one(cut("right"))
              ELSE AfterEncode(r0, plain, truncation)

\* one test of the while loop of case "history", lines 115-124
HistoryStep ==
    /\ render.pc = "history"
    /\ render' =
          IF Len(render.pre_ids) > render.max_length.n
          THEN IF Len(render.work.history) > 1
               THEN LET w == PopTwoHistory(render.work)
                    IN  AfterEncode(SetWork(render, w),
                                    EncodePlain(w, render.tpl), "history")
               ELSE Raise(render, "ValueError")
          ELSE Return(render, render.pre_ids)

\* one test of the while loop of case "demo", lines 127-133: pre_ids is not
\* encoded again, and after the loop ids was never assigned (line 153)
DemoStep ==
    /\ render.pc = "demo"
    /\ render' =
          IF Len(render.pre_ids) > render.max_length.n
          THEN IF Len(render.work.demonstrations) > 0
               THEN SetWork(render, PopOneDemo(render.work))
               ELSE Raise(render, "ValueError")
          ELSE Raise(render, "UnboundLocalError")

\* one test of the while loop of case "auto", lines 136-148
AutoStep ==
    /\ render.pc = "auto"
    /\ render' =
          IF Len(render.pre_ids) > render.max_length.n
          THEN IF Len(render.work.history) > 1
               THEN LET w == PopTwoHistory(render.work)
                    IN  AfterEncode(SetWork(render, w),
                                    EncodePlain(w, render.tpl), "auto")
               ELSE IF Len(render.work.demonstrations) > 0
               THEN LET w == PopOneDemo(render.work)
                    IN  AfterEncode(SetWork(render, w),
                                    EncodePlain(w, render.tpl), "auto")
               ELSE AfterEncode([render EXCEPT !.fell_back = TRUE],
                                Encode(render.work, None, TRUE, "left", render.tpl),
                                "auto")
          ELSE Return(render, render.pre_ids)

RenderCall ==
    /\ render.pc = "idle"
    /\ \E prompt \in RenderPrompts, max_length \in MaxLengths,
          truncation \in TRUNCATION_STRATEGIES, tpl \in Templates :
           RenderStart(prompt, max_length, truncation, tpl)
    /\ UNCHANGED nonRenderVars

HistoryLoop == HistoryStep /\ UNCHANGED nonRenderVars
DemoLoop == DemoStep /\ UNCHANGED nonRenderVars
AutoLoop == AutoStep /\ UNCHANGED nonRenderVars

RenderNext == RenderCall \/ HistoryLoop \/ DemoLoop \/ AutoLoop

\* ----------------------------------------------------- iterative searcher

\* bound of the searcher model
MaxFeedbackDepth == 3   \* feedback_depth is 0..MaxFeedbackDepth

\* a query is the sequence of its terms
Question == <<"question">>

\* rewrite_query: the agent's answer is the query
RewriteQuery(info) == <<"rewritten">>

\* the prompt types of refine_prompt["bm25"]
PromptTypes == {"extend", "filter", "emphasize"}

\* refine_query: the loop over the prompt types returns at the end of its first
\* pass (line 131), so only the first prompt type is used.  found tells whether
\* the quoted response occurs in current_query: when it does not, re.sub
\* leaves the query as it is and that query is the refined one
RefineQueryEveryType(current_query, prompt_type, found) ==
    <<current_query \o <<"response">>, current_query \o <<"-response">>>>
        \o (IF found THEN <<>> ELSE <<current_query>>)
RefineQuery(current_query, prompt_type, found) ==
    CASE prompt_type = "extend" -> <<current_query \o <<"response">>>>
      [] prompt_type = "filter" -> <<current_query \o <<"-response">>>>
      [] prompt_type = "emphasize" -> IF found THEN <<>> ELSE <<current_query>>

\* the contexts retrieved for a query, in the uniform shape of lines 64-73
Contexts(query) == [query |-> query, retriever |-> "bm25"]

\* line 90: the branch is at the maximum depth
AtMaximumDepthNever(depth, total_depth) == FALSE
AtMaximumDepth(depth, total_depth) == depth >= total_depth

\* line 82: the judge is asked only when more than one round is configured
JudgeConfiguredAlways(total_depth) == TRUE
JudgeConfigured(total_depth) == total_depth > 1

\* lines 74-79: retrieval_history.append({"query": ..., "ctxs": ...})
RecordRoundInFront(retrieval_history, query, ctxs) ==
    <<[query |-> query, ctxs |-> ctxs]>> \o retrieval_history
RecordRound(retrieval_history, query, ctxs) ==
    Append(retrieval_history, [query |-> query, ctxs |-> ctxs])

\* line 100: return ctxs, retrieval_history
SearchReturn(b) ==
    [b EXCEPT !.pc = "done", !.out = "ok",
              !.returns = [ctxs |-> b.ctxs,
                           retrieval_history |-> b.retrieval_history]]

SearcherIdle == bm25 = [pc |-> "idle"]

\* search up to the first test of the while loop, lines 42-50
SearchStart(feedback_depth, rewrite, first_type) ==
    LET query_to_search == IF rewrite THEN RewriteQuery(Question) ELSE Question
    IN  bm25' = [pc |-> "loop",
                 feedback_depth |-> feedback_depth,
                 first_type |-> first_type,
                 retrieval_history |-> <<>>,
                 query_to_search |-> query_to_search,
                 depth |-> 0,
                 ctxs |-> None,
                 search_stack |-> <<[query |-> query_to_search, depth |-> 1]>>,
                 total_depth |-> feedback_depth + 1,
                 calls |-> IF rewrite THEN <<[kind |-> "rewrite"]>> ELSE <<>>,
                 returns |-> None,
                 out |-> "none"]

\* lines 53-79: the front entry is popped, its query is retrieved and the
\* round is recorded; an exception of the retriever ends the search
RetrieveStep(raises) ==
    /\ bm25.pc = "loop"
    /\ Len(bm25.search_stack) > 0
    /\ LET entry == Head(bm25.search_stack)
           popped == [bm25 EXCEPT !.search_stack = Tail(@),
                                  !.query_to_search = entry.query,
                                  !.depth = entry.depth,
                                  !.calls = Append(@, [kind |-> "retrieve",
                                                       query |-> entry.query,
                                                       depth |-> entry.depth])]
       IN  bm25' = IF raises
                   THEN [popped EXCEPT !.pc = "done", !.out = "error"]
                   ELSE [popped EXCEPT
                            !.pc = "verify",
                            !.ctxs = Contexts(entry.query),
                            !.retrieval_history =
                                RecordRound(@, entry.query,
                                            Contexts(entry.query))]

\* lines 81-91: the judge is asked when more than one round is configured;
\* a sufficient round ends the search, a branch at the maximum depth is dropped
VerifyStep(answer) ==
    /\ bm25.pc = "verify"
    /\ LET judged == JudgeConfigured(bm25.total_depth)
           verification == IF judged THEN answer ELSE TRUE
           asked == IF judged
                    THEN [bm25 EXCEPT !.calls = Append(@, [kind |-> "verify",
                                                           result |-> answer])]
                    ELSE bm25
       IN  bm25' = IF verification
                   THEN SearchReturn(asked)
                   ELSE IF AtMaximumDepth(bm25.depth, bm25.total_depth)
                   THEN [asked EXCEPT !.pc = "loop"]
                   ELSE [asked EXCEPT !.pc = "refine"]

\* lines 93-99: the refined queries are queued at depth + 1
RefineStep(found) ==
    /\ bm25.pc = "refine"
    /\ LET refined == RefineQuery(bm25.query_to_search, bm25.first_type, found)
           children == [i \in 1..Len(refined) |->
                           [query |-> refined[i], depth |-> bm25.depth + 1]]
       IN  bm25' = [bm25 EXCEPT
                       !.pc = "loop",
                       !.search_stack = @ \o children,
                       !.calls = Append(@, [kind |-> "refine",
                                            children |-> children])]

\* line 53 and line 100: the queue is empty, the last contexts are returned
LoopExit ==
    /\ bm25.pc = "loop"
    /\ Len(bm25.search_stack) = 0
    /\ bm25' = SearchReturn(bm25)

BM25Search ==
    /\ bm25.pc = "idle"
    /\ \E feedback_depth \in 0..MaxFeedbackDepth, rewrite \in BOOLEAN,
          first_type \in PromptTypes :
           SearchStart(feedback_depth, rewrite, first_type)
    /\ UNCHANGED nonSearcherVars

Retrieve == (\E raises \in BOOLEAN : RetrieveStep(raises)) /\ UNCHANGED nonSearcherVars
Verify == (\E answer \in BOOLEAN : VerifyStep(answer)) /\ UNCHANGED nonSearcherVars
Refine == (\E found \in BOOLEAN : RefineStep(found)) /\ UNCHANGED nonSearcherVars
Finish == LoopExit /\ UNCHANGED nonSearcherVars

SearcherNext == BM25Search \/ Retrieve \/ Verify \/ Refine \/ Finish

\* --------------------------------------------------- generation config

\* bound of the generation-config model
MaxSampleNum == 2       \* sample_num is -1..MaxSampleNum

\* the argument values of a construction; temperature and top_p are floats,
\* held in tenths (9 is 0.9, 15 is 1.5)
SampleNums == (0 - 1)..MaxSampleNum
TemperatureTenths == {0 - 5, 0, 10}
MaxNewTokens == {0 - 1, 0, 16}
TopPTenths == {0 - 1, 0, 9, 10, 15}
TopKs50 == {0 - 1, 0, 50}

\* GenerationConfig(...) with the fields __post_init__ reads
GenerationConfig(do_sample, sample_num, temperature, max_new_tokens, top_p, top_k) ==
    [do_sample |-> do_sample, sample_num |-> sample_num,
     temperature |-> temperature, max_new_tokens |-> max_new_tokens,
     top_p |-> top_p, top_k |-> top_k]

\* GenerationConfig.__post_init__: the first assertion that fails raises
PostInitWithoutSampleCheck(cfg) ==
    IF ~(cfg.sample_num > 0) THEN "AssertionError"
    ELSE IF ~(cfg.temperature >= 0) THEN "AssertionError"
    ELSE IF ~(cfg.max_new_tokens > 0) THEN "AssertionError"
    ELSE IF ~(0 <= cfg.top_p /\ cfg.top_p <= 10) THEN "AssertionError"
    ELSE IF ~(cfg.top_k > 0) THEN "AssertionError"
    ELSE "ok"
PostInit(cfg) ==
    IF ~(cfg.sample_num > 0) THEN "AssertionError"
    ELSE IF cfg.sample_num > 1 /\ ~cfg.do_sample THEN "AssertionError"
    ELSE IF ~(cfg.temperature >= 0) THEN "AssertionError"
    ELSE IF ~(cfg.max_new_tokens > 0) THEN "AssertionError"
    ELSE IF ~(0 <= cfg.top_p /\ cfg.top_p <= 10) THEN "AssertionError"
    ELSE IF ~(cfg.top_k > 0) THEN "AssertionError"
    ELSE "ok"

GenerationIdle == gen = [pc |-> "idle"]

\* one construction
Construct(cfg) ==
    /\ gen.pc = "idle"
    /\ gen' = [pc |-> "done", cfg |-> cfg, outcome |-> PostInit(cfg)]

ConstructCall ==
    /\ \E do_sample \in BOOLEAN, sample_num \in SampleNums,
          temperature \in TemperatureTenths, max_new_tokens \in MaxNewTokens,
          top_p \in TopPTenths, top_k \in TopKs50 :
           Construct(GenerationConfig(do_sample, sample_num, temperature,
                                      max_new_tokens, top_p, top_k))
    /\ UNCHANGED nonGenerationVars

GenerationNext == ConstructCall

\* --------------------------------------------------------------- assistant

\* bound of the assistant model
MaxQuestions == 2       \* most questions of one answer call

QuestionPool == {"q1", "q2"}
RESPONSE_TYPES == {"short", "long", "original"}

\* the k-th RetrievedContext of a context list: every other one has no short
\* text, only a full text
RetrievedContext(k) ==
    [text |-> <<"t1", "", "t3", "">>[k], full_text |-> <<"f1", "f2", "f3", "f4">>[k]]

\* a context list of n contexts
ContextList(n) == [k \in 1..n |-> RetrievedContext(k)]

\* the context lists of a question: none, one or two contexts
ContextLists == {ContextList(0), ContextList(1), ContextList(2)}

\* the batches answer is called with: questions, and one context list each
Batches ==
    {[questions |-> qs, contexts |-> cs] :
        qs \in SeqsUpTo(QuestionPool, MaxQuestions),
        cs \in SeqsUpTo(ContextLists, MaxQuestions)}

\* the prompt templates loaded by __init__ (lines 37-70): the bundled JSON
\* templates for short and long, an empty ChatPrompt for original
BaseTemplate(response_type, with_ctx) ==
    IF response_type = "original" THEN ChatPrompt(None, <<>>, <<>>)
    ELSE ChatPrompt(ChatTurn("system", <<response_type, with_ctx>>), <<>>, <<>>)

\* Assistant.__init__: sample_num above 1 is forced to 1 (lines 29-31)
AssistantKeepingSampleNum(adaptive_retrieval, sample_num, response_type) ==
    [pc |-> "ready",
     adaptive_retrieval |-> adaptive_retrieval,
     sample_num |-> sample_num,
     response_type |-> response_type,
     prompt_with_ctx |-> BaseTemplate(response_type, TRUE),
     prompt_wo_ctx |-> BaseTemplate(response_type, FALSE),
     last |-> [op |-> "none"]]
Assistant(adaptive_retrieval, sample_num, response_type) ==
    [pc |-> "ready",
     adaptive_retrieval |-> adaptive_retrieval,
     sample_num |-> IF sample_num > 1 THEN 1 ELSE sample_num,
     response_type |-> response_type,
     prompt_with_ctx |-> BaseTemplate(response_type, TRUE),
     prompt_wo_ctx |-> BaseTemplate(response_type, FALSE),
     last |-> [op |-> "none"]]

\* lines 101-108: the content of the user turn, as its pieces in order
UserPrompt(question, ctxs) ==
    [n \in 1..Len(ctxs) |->
        [label |-> "Context", n |-> n,
         text |-> IF ctxs[n].text # "" THEN ctxs[n].text ELSE ctxs[n].full_text]]
    \o <<[label |-> "Question", n |-> 0, text |-> question]>>

\* lines 95-98: the prompt object the user turn is added to, a deep copy of
\* the template; aliased tells whether it is the template object itself
NoDeepCopy(with_ctx) == [with_ctx |-> with_ctx, aliased |-> TRUE]
DeepCopy(with_ctx) == [with_ctx |-> with_ctx, aliased |-> FALSE]

\* lines 93-110: the loop over zip(questions, contexts) from position i on;
\* the assistant as the loop leaves it, and the prompts it appends
RECURSIVE BuildPrompts(_, _, _, _)
BuildPrompts(a, questions, contexts, i) ==
    IF i > Min(Len(questions), Len(contexts))
    THEN [asst |-> a, prompts |-> <<>>]
    ELSE LET obj == DeepCopy(Len(contexts[i]) > 0)
             template == IF obj.with_ctx THEN a.prompt_with_ctx ELSE a.prompt_wo_ctx
             turn == ChatTurn("user", UserPrompt(questions[i], contexts[i]))
             prompt == [template EXCEPT !.history = Append(@, turn)]
             a1 == IF ~obj.aliased THEN a
                   ELSE IF obj.with_ctx THEN [a EXCEPT !.prompt_with_ctx = prompt]
                   ELSE [a EXCEPT !.prompt_wo_ctx = prompt]
             rest == BuildPrompts(a1, questions, contexts, i + 1)
         IN  [asst |-> rest.asst, prompts |-> <<prompt>> \o rest.prompts]

\* generator.chat(prompts, generation_config): for every prompt, in prompt
\* order, sample_num completions
GeneratorChat(prompts, sample_num) ==
    [i \in 1..Len(prompts) |->
        [k \in 1..sample_num |-> [prompt |-> prompts[i], sample |-> k]]]

AssistantIdle == asst = [pc |-> "idle"]

AssistantInit ==
    \E adaptive_retrieval \in BOOLEAN, sample_num \in 1..MaxSampleNum,
       response_type \in RESPONSE_TYPES :
        asst = Assistant(adaptive_retrieval, sample_num, response_type)

\* Assistant.answer
Answer(batch) ==
    /\ asst.pc = "ready"
    /\ Len(batch.questions) = Len(batch.contexts)
    /\ asst' =
          IF asst.adaptive_retrieval
          THEN [asst EXCEPT !.last = [op |-> "answer", batch |-> batch,
                                      outcome |-> "NotImplementedError"]]
          ELSE LET built == BuildPrompts(asst, batch.questions, batch.contexts, 1)
                   response == GeneratorChat(built.prompts, asst.sample_num)
               IN  [built.asst EXCEPT
                       !.last = [op |-> "answer", batch |-> batch,
                                 outcome |-> "ok",
                                 sent_sample_num |-> asst.sample_num,
                                 backend |-> response,
                                 response |-> [i \in 1..Len(response) |-> response[i][1]],
                                 prompts |-> built.prompts]]

AnswerCall == (\E batch \in Batches : Answer(batch)) /\ UNCHANGED nonAssistantVars

AssistantNext == AnswerCall

\* ------------------------------------------------------------------ fan-out

\* bound of the fan-out model
MaxItems == 3           \* most items of one input batch

\* the fan-out operations and how each runs its per-item requests: on a
\* thread pool (pool.map / executor.map), one after another (allow_parallel
\* off), or as one thread task per item (asyncio.to_thread)
FanOutOps ==
    {[name |-> n, mode |-> m] :
        n \in {"chat", "download"}, m \in {"pool", "sequential"}}
    \cup {[name |-> "async_chat", mode |-> "tasks"],
          [name |-> "async_download", mode |-> "tasks"]}

ItemPool == {"x1", "x2"}

\* the inputs: a list of items, or for the downloads one url given as a str
FanOutInputs(op) ==
    {[kind |-> "list", value |-> v] : v \in SeqsUpTo(ItemPool, MaxItems)}
    \cup IF op.name \in {"download", "async_download"}
         THEN {[kind |-> "str", value |-> <<u>>] : u \in ItemPool}
         ELSE {}

\* what one request returns for its item: the completions of the prompt, or
\* the page of the url
RequestResult(item) == [of |-> item]

\* the list the operation returns once every request is done: pool.map,
\* the awaits over tasks and asyncio.gather all yield the result of request i
\* at position i, whatever the order of completion
ResultsAsCompleted(inputs, completed) ==
    [k \in 1..Len(completed) |-> RequestResult(inputs[completed[k]])]
ResultsInOrder(inputs, completed) ==
    [i \in 1..Len(inputs) |-> RequestResult(inputs[i])]

FanOutIdle == fan = [pc |-> "idle"]

\* the call: the requests are created, none has completed
FanOutStart(op, input) ==
    /\ fan.pc = "idle"
    /\ fan' = [pc |-> "running", op |-> op, input |-> input,
               items |-> input.value, completed |-> <<>>, out |-> None]

\* request i completes: any pending one on a pool or as a task, the next one
\* in input order when the requests run one after another
CompleteRequest(i) ==
    /\ fan.pc = "running"
    /\ i \in 1..Len(fan.items)
    /\ i \notin Range(fan.completed)
    /\ fan.op.mode = "sequential" => i = Len(fan.completed) + 1
    /\ fan' = [fan EXCEPT !.completed = Append(@, i)]

\* every request is done: the call returns
FanOutReturn ==
    /\ fan.pc = "running"
    /\ Len(fan.completed) = Len(fan.items)
    /\ fan' = [fan EXCEPT !.pc = "done",
                          !.out = ResultsInOrder(fan.items, fan.completed)]

FanOutCall ==
    /\ \E op \in FanOutOps : \E input \in FanOutInputs(op) : FanOutStart(op, input)
    /\ UNCHANGED nonFanOutVars
RequestDone == (\E i \in 1..MaxItems : CompleteRequest(i)) /\ UNCHANGED nonFanOutVars
FanOutDone == FanOutReturn /\ UNCHANGED nonFanOutVars

FanOutNext == FanOutCall \/ RequestDone \/ FanOutDone

\* --------------------------------------------- default async operations

\* bound of the event-loop model
MaxOtherSteps == 4      \* steps of the caller's other task that are counted

\* the default (non-native) asynchronous operations
DefaultAsyncOps == {"async_chat", "async_generate", "async_encode", "async_search"}

\* the thread the wrapped synchronous work runs on: async_search awaits
\* asyncio.to_thread(self.search, ...); async_chat, async_generate and
\* async_encode call self.chat, self.generate and self.encode in the
\* coroutine itself, which runs on the event loop's thread
SyncWorkThread(op) == IF op = "async_search" THEN "worker" ELSE "loop"

AsyncIdle == aio = [pc |-> "idle", before |-> 0]

\* the caller awaits the operation: its synchronous work starts
AsyncCall(op) ==
    /\ aio.pc = "idle"
    /\ aio' = [pc |-> "working", op |-> op, thread |-> SyncWorkThread(op),
               before |-> aio.before, during |-> 0, after |-> 0]

\* another task of the caller's scheduler takes a step: the event loop's
\* thread must not be inside synchronous work
OtherTaskStep ==
    CASE aio.pc = "idle" ->
            /\ aio.before < MaxOtherSteps
            /\ aio' = [aio EXCEPT !.before = @ + 1]
      [] aio.pc = "working" ->
            /\ aio.thread # "loop"
            /\ aio.during < MaxOtherSteps
            /\ aio' = [aio EXCEPT !.during = @ + 1]
      [] aio.pc = "done" ->
            /\ aio.after < MaxOtherSteps
            /\ aio' = [aio EXCEPT !.after = @ + 1]

\* the synchronous work returns and the operation completes
SyncWorkReturns ==
    /\ aio.pc = "working"
    /\ aio' = [aio EXCEPT !.pc = "done"]

AwaitDefaultAsync == (\E op \in DefaultAsyncOps : AsyncCall(op)) /\ UNCHANGED nonAsyncVars
OtherTask == OtherTaskStep /\ UNCHANGED nonAsyncVars
AsyncCompletes == SyncWorkReturns /\ UNCHANGED nonAsyncVars

AsyncNext == AwaitDefaultAsync \/ OtherTask \/ AsyncCompletes

\* ------------------------------------------------------ dense vector index

\* bounds of the dense-index model
MaxEmbeddings == 2      \* rows of one embeddings argument
MaxTotal == 3           \* vectors an index holds
NList == 2              \* cells of the IVF index: training needs that many rows

IndexTypes == {"FLAT", "IVF"}
EmbeddingRows == 1..MaxEmbeddings

\* _prepare_index: a fresh index of the configured type; a flat index needs
\* no training, every other index starts untrained
PrepareIndex(index_type) ==
    [flat |-> index_type = "FLAT", trained |-> index_type = "FLAT", ntotal |-> 0]

\* the is_trained property
IsTrained(index) == IF index = None THEN FALSE ELSE index.trained

\* the is_flat property
IsFlat(index, index_type) == IF index = None THEN index_type = "FLAT" ELSE index.flat

\* clean: nothing without an index; else removes the file and resets the
\* index, which drops its vectors and keeps its training
Clean(d) ==
    IF d.index = None THEN d
    ELSE [d EXCEPT !.file = None, !.index = [@ EXCEPT !.ntotal = 0]]

\* train_index: a flat index returns at once; index.train raises on a
\* missing index and when there are fewer rows than cells
TrainIndex(d, rows) ==
    IF IsFlat(d.index, d.index_type) THEN [d |-> d, out |-> "ok"]
    ELSE IF d.index = None \/ rows < NList THEN [d |-> d, out |-> "error"]
    ELSE [d |-> [d EXCEPT !.index = [@ EXCEPT !.trained = TRUE]], out |-> "ok"]

\* serialize: asserts that the index is trained, then writes the file
Serialize(d) ==
    IF IsTrained(d.index) THEN [d EXCEPT !.file = d.index] ELSE d

\* _add_embeddings_batch: asserts is_trained, then adds the rows; the index
\* artifact is written again after the insertion
AddEmbeddingsBatch(d, rows) ==
    IF ~IsTrained(d.index) THEN [d |-> d, out |-> "error"]
    ELSE [d |-> Serialize([d EXCEPT !.index = [@ EXCEPT !.ntotal = @ + rows]]),
          out |-> "ok"]

\* the outcomes of _search_batch: no check of is_trained; index.search raises
\* on a missing index (None has no attribute search); on an index that exists
\* and is untrained the library decides (an IVF index answers with -1 labels,
\* a PQ index raises)
SearchBatchOutcomes(index) ==
    IF index = None THEN {"error"}
    ELSE IF ~index.trained THEN {"error", "ok"}
    ELSE {"ok"}

\* build_index: clean, prepare, train, add; the prepared index is assigned
\* before training, so a failed training leaves it in place untrained
BuildIndex(d, rows) ==
    LET prepared == [Clean(d) EXCEPT !.index = PrepareIndex(d.index_type)]
        t == TrainIndex(prepared, rows)
    IN  IF t.out = "error" THEN t ELSE AddEmbeddingsBatch(t.d, rows)

\* the outcome of the last operation issued on the index
LastOp(d, op, out) ==
    [op |-> op, out |-> out, trained |-> IsTrained(d.index), before |-> d.index]

DenseIdle == dix = [pc |-> "idle"]

\* __init__: loads the index when the file exists
FaissIndex(index_type, file) ==
    [pc |-> "ready", index_type |-> index_type, index |-> file, file |-> file,
     last |-> [op |-> "construct", out |-> "ok", trained |-> FALSE, before |-> None]]

Finished(r, op) == [r.d EXCEPT !.last = LastOp(dix, op, r.out)]

DenseConstruct ==
    /\ \E index_type \in IndexTypes :
          dix' = FaissIndex(index_type, IF dix.pc = "idle" THEN None ELSE dix.file)
    /\ UNCHANGED nonDenseVars

DenseBuild ==
    /\ dix.pc = "ready"
    /\ \E rows \in EmbeddingRows : dix' = Finished(BuildIndex(dix, rows), "build_index")
    /\ UNCHANGED nonDenseVars

DenseTrain ==
    /\ dix.pc = "ready"
    /\ \E rows \in EmbeddingRows : dix' = Finished(TrainIndex(dix, rows), "train_index")
    /\ UNCHANGED nonDenseVars

DenseAdd ==
    /\ dix.pc = "ready"
    /\ \E rows \in EmbeddingRows :
          /\ dix.index # None => dix.index.ntotal + rows <= MaxTotal
          /\ dix' = Finished(AddEmbeddingsBatch(dix, rows), "add_embeddings")
    /\ UNCHANGED nonDenseVars

DenseSearch ==
    /\ dix.pc = "ready"
    /\ \E out \in SearchBatchOutcomes(dix.index) :
          dix' = Finished([d |-> dix, out |-> out], "search")
    /\ UNCHANGED nonDenseVars

DenseClean ==
    /\ dix.pc = "ready"
    /\ dix' = Finished([d |-> Clean(dix), out |-> "ok"], "clean")
    /\ UNCHANGED nonDenseVars

\* deserialize: reads the file and returns the index; raises without a file
DenseDeserialize ==
    /\ dix.pc = "ready"
    /\ dix' = Finished([d |-> dix, out |-> IF dix.file = None THEN "error" ELSE "ok"],
                       "deserialize")
    /\ UNCHANGED nonDenseVars

DenseNext ==
    \/ DenseConstruct
    \/ DenseBuild
    \/ DenseTrain
    \/ DenseAdd
    \/ DenseSearch
    \/ DenseClean
    \/ DenseDeserialize

\* ----------------------------------------------------------- registry merge

\* bound of the merge model
MaxMergeAliases == 1    \* most short names of one registration in an operand

\* the two operands of self + register
Operands == {"self", "register"}

\* {**left, **right}: the keys of both, the value of the right one for a key
\* that both have
DictUnion(left, right) ==
    [k \in DOMAIN left \cup DOMAIN right |->
        IF k \in DOMAIN right THEN right[k] ELSE left[k]]

\* an empty Register
EmptyRegister == [items |-> <<>>, shortcuts |-> <<>>]

\* registe_item on one operand; the registered class belongs to that operand
\* (classes of two registries that have the same name are different classes)
RegisterIn(reg, owner, main_name, short_names) ==
    IF NameConflict(reg.items, reg.shortcuts, main_name, short_names) THEN reg
    ELSE [items |-> DictSet(reg.items, main_name,
                            [Entry(main_name, short_names, "None")
                                EXCEPT !.item = <<owner, main_name>>]),
          shortcuts |-> SetShortcuts(reg.shortcuts, short_names, main_name)]

\* Register.__add__: a new register with the unions of both dicts
Add(self, register) ==
    [items |-> DictUnion(self.items, register.items),
     shortcuts |-> DictUnion(self.shortcuts, register.shortcuts)]

MergeIdle == mrg = [pc |-> "idle"]

MergeStart ==
    /\ mrg.pc = "idle"
    /\ mrg' = [pc |-> "building", self |-> EmptyRegister, register |-> EmptyRegister]
    /\ UNCHANGED nonMergeVars

MergeRegister ==
    /\ mrg.pc = "building"
    /\ \E owner \in Operands, main_name \in ClassNames,
          short_names \in SeqsUpTo(Names, MaxMergeAliases) :
          mrg' = [mrg EXCEPT ![owner] = RegisterIn(mrg[owner], owner, main_name, short_names)]
    /\ UNCHANGED nonMergeVars

MergeAdd ==
    /\ mrg.pc = "building"
    /\ mrg' = [pc |-> "merged", self |-> mrg.self, register |-> mrg.register,
               result |-> Add(mrg.self, mrg.register)]
    /\ UNCHANGED nonMergeVars

MergeNext == MergeStart \/ MergeRegister \/ MergeAdd

\* ----------------------------------------------------------- web downloader

\* bound of the downloader model
MaxRetries == 4         \* largest configured max_retries

Urls == {"u1", "u2", "u3"}
RetryCounts == 1..MaxRetries

\* stop_after_attempt(self.max_retries)
StopAfterAttempt(max_retries, attempt_number) == attempt_number >= max_retries

\* retry_error_callback: lambda _: None if self.skip_bad_response else None;
\* the value of the conditional expression is None on both branches
RetryErrorCallback(skip_bad_response) ==
    IF skip_bad_response THEN [out |-> "None"] ELSE [out |-> "None"]

\* one attempt of download_page under @retry: client.get, raise_for_status,
\* response.text; a failed attempt is repeated until the stop condition
\* holds, and then the value of the callback is returned
DownloadAttempt(d, ok) ==
    LET attempts == Append(d.attempts, ok)
    IN  IF ok THEN [d EXCEPT !.attempts = attempts, !.pc = "done", !.out = "text"]
        ELSE IF StopAfterAttempt(d.max_retries, Len(attempts))
        THEN [d EXCEPT !.attempts = attempts, !.pc = "done",
                       !.out = RetryErrorCallback(d.skip_bad_response).out]
        ELSE [d EXCEPT !.attempts = attempts]

DownloadIdle == dl = [pc |-> "idle"]

\* SimpleWebDownloader(cfg).download(url)
Download ==
    /\ dl.pc \in {"idle", "done"}
    /\ \E url \in Urls, max_retries \in RetryCounts, skip_bad_response \in BOOLEAN :
          dl' = [pc |-> "get", url |-> url, max_retries |-> max_retries,
                 skip_bad_response |-> skip_bad_response, attempts |-> <<>>,
                 out |-> "none"]
    /\ UNCHANGED nonDownloadVars

Get ==
    /\ dl.pc = "get"
    /\ \E ok \in BOOLEAN : dl' = DownloadAttempt(dl, ok)
    /\ UNCHANGED nonDownloadVars

DownloadNext == Download \/ Get

\* -------------------------------------------------------- retrieval metrics

\* bound of the metrics model
MaxExamples == 2        \* examples of one batch

\* texts are sequences of characters
G1 == <<"a">>
G2 == <<"b", "a">>
T1 == <<"a", "b">>
T2 == <<"b", "b">>
T3 == <<"b", "a", "b">>

\* the gold lists and the retrieved lists of an example
GoldLists == {<<>>, <<G1>>, <<G2>>, <<G2, G1>>}
RetrievedLists == {<<>>, <<T1>>, <<T2>>, <<T2, T3>>}
Examples == [golds : GoldLists, ctxs : RetrievedLists]

\* evd in ret, on strings
Contains(evd, ret) ==
    \E i \in 1..(Len(ret) - Len(evd) + 1) : SubSeq(ret, i, i + Len(evd) - 1) = evd

\* get_contain_map_py: one row per retrieved text, one entry per evidence
GetContainMapPy(evidences, retrieved) ==
    [r \in 1..Len(retrieved) |->
        [e \in 1..Len(evidences) |-> Contains(evidences[e], retrieved[r])]]

\* any([any(j) for j in rel_map])
AnyAny(rel_map) ==
    \E r \in 1..Len(rel_map) : \E e \in 1..Len(rel_map[r]) : rel_map[r][e]

\* sum(success_map)
RECURSIVE SumBools(_)
SumBools(success_map) ==
    IF success_map = <<>> THEN 0
    ELSE (IF Head(success_map) THEN 1 ELSE 0) + SumBools(Tail(success_map))

\* the loop of compute over the examples: ctxs[0] raises IndexError on an
\* example without retrieved texts
RECURSIVE SuccessMap(_)
SuccessMap(batch) ==
    IF batch = <<>> THEN [out |-> "ok", success_map |-> <<>>]
    ELSE IF Head(batch).ctxs = <<>> THEN [out |-> "IndexError"]
    ELSE LET rest == SuccessMap(Tail(batch))
             is_success == AnyAny(GetContainMapPy(Head(batch).golds, Head(batch).ctxs))
         IN  IF rest.out # "ok" THEN rest
             ELSE [out |-> "ok", success_map |-> <<is_success>> \o rest.success_map]

\* SuccessRate.compute: the score is a quotient, kept as numerator and
\* denominator; ZeroDivisionError on an empty batch
Compute(batch) ==
    LET m == SuccessMap(batch)
    IN  IF m.out # "ok" THEN [out |-> m.out]
        ELSE IF Len(m.success_map) = 0 THEN [out |-> "ZeroDivisionError"]
        ELSE [out |-> "ok",
              score |-> [num |-> SumBools(m.success_map), den |-> Len(m.success_map)],
              success_map |-> m.success_map]

MetricIdle == sr = [pc |-> "idle"]

ComputeCall ==
    /\ sr.pc = "idle"
    /\ \E batch \in SeqsUpTo(Examples, MaxExamples) :
          sr' = [pc |-> "done", batch |-> batch, returned |-> Compute(batch)]
    /\ UNCHANGED nonMetricVars

MetricNext == ComputeCall

\* ----------------------------------------------- scoped environment variable

\* bound of the environment model
MaxNesting == 2         \* set_env_var blocks open at once

\* the variable the blocks set, and another variable
EnvKeys == {"KEY", "OTHER"}
EnvValues == {"v1", "v2"}
Absent == "absent"

\* os.environ.get(key): None for a variable that is absent
EnvironGet(environ, key) == environ[key]

\* the entry of set_env_var, up to the yield
SetEnvVarEnter(e, value) ==
    [e EXCEPT !.stack = Append(@, [original_value |-> EnvironGet(e.environ, "KEY"),
                                   value |-> value,
                                   environ_before |-> e.environ]),
              !.environ = [@ EXCEPT !["KEY"] = value],
              !.last = [op |-> "enter", value |-> value]]

\* the finally clause of set_env_var: del os.environ[key] raises KeyError
\* when the variable is absent
Finally(environ, original_value) ==
    IF original_value = Absent
    THEN IF environ["KEY"] = Absent
         THEN [error |-> "KeyError", environ |-> environ]
         ELSE [error |-> "none", environ |-> [environ EXCEPT !["KEY"] = Absent]]
    ELSE [error |-> "none", environ |-> [environ EXCEPT !["KEY"] = original_value]]

\* the exit of the innermost block: an error raised in the finally clause
\* replaces the error in flight
SetEnvVarExit(e) ==
    LET frame == e.stack[Len(e.stack)]
        f == Finally(e.environ, frame.original_value)
    IN  [e EXCEPT !.stack = SubSeq(@, 1, Len(@) - 1),
                  !.environ = f.environ,
                  !.error = IF f.error # "none" THEN f.error ELSE e.error,
                  !.last = [op |-> "exit", frame |-> frame, error_of_body |-> e.error]]

\* nothing was entered yet
EnvIdle == ev = [pc |-> "idle"]

EnvStart ==
    /\ ev.pc = "idle"
    /\ \E k \in EnvValues \cup {Absent}, o \in EnvValues \cup {Absent} :
          ev' = [pc |-> "run", environ |-> [x \in EnvKeys |-> IF x = "KEY" THEN k ELSE o],
                 stack |-> <<>>, error |-> "none", last |-> [op |-> "none"]]
    /\ UNCHANGED nonEnvVars

\* with set_env_var("KEY", value):
EnterBlock ==
    /\ ev.pc = "run"
    /\ ev.error = "none"
    /\ Len(ev.stack) < MaxNesting
    /\ \E value \in EnvValues : ev' = SetEnvVarEnter(ev, value)
    /\ UNCHANGED nonEnvVars

\* the body sets or deletes the variable
BodyWrites ==
    /\ ev.pc = "run"
    /\ ev.error = "none"
    /\ Len(ev.stack) > 0
    /\ \E v \in EnvValues \cup {Absent} :
          ev' = [ev EXCEPT !.environ = [@ EXCEPT !["KEY"] = v],
                           !.last = [op |-> "body"]]
    /\ UNCHANGED nonEnvVars

\* the body raises
BodyRaises ==
    /\ ev.pc = "run"
    /\ ev.error = "none"
    /\ Len(ev.stack) > 0
    /\ ev' = [ev EXCEPT !.error = "BodyError", !.last = [op |-> "body"]]
    /\ UNCHANGED nonEnvVars

\* the innermost block exits, normally or with the error in flight
ExitBlock ==
    /\ ev.pc = "run"
    /\ Len(ev.stack) > 0
    /\ ev' = SetEnvVarExit(ev)
    /\ UNCHANGED nonEnvVars

\* the caller of the outermost block handles the error
ErrorHandled ==
    /\ ev.pc = "run"
    /\ ev.error # "none"
    /\ Len(ev.stack) = 0
    /\ ev' = [ev EXCEPT !.error = "none", !.last = [op |-> "handled"]]
    /\ UNCHANGED nonEnvVars

EnvNext ==
    \/ EnvStart
    \/ EnterBlock
    \/ BodyWrites
    \/ BodyRaises
    \/ ExitBlock
    \/ ErrorHandled

\* ------------------------------------------------ elastic retriever search

\* bound of the elastic retriever model
MaxRetryTimes == 3      \* largest configured retry_times

ElasticSearchMethods == {"full_text", "string"}
ElasticQueries == {<<"q1">>, <<"q1", "q2">>}
RetryTimes == 1..MaxRetryTimes

\* the search body of _full_text_search (multi_match) and of _string_search
\* (query_string): an index line and a query line per query
MsearchBody(search_method, query) ==
    [i \in 1..(2 * Len(query)) |->
        IF i % 2 = 1 THEN [index |-> "documents"]
        ELSE [kind |-> IF search_method = "full_text" THEN "multi_match" ELSE "query_string",
              query |-> query[i \div 2], size |-> 10]]

\* if retry_times > 1: msearch is wrapped by retry(...); else it is called
\* as it is
RetryWrapped(retry_times) == retry_times > 1

\* _save_error_state: the arguments of the failing call are written to
\* elastic_retriever_error_state.json, then the exception is raised
SaveErrorState(e) ==
    [e EXCEPT !.file = [args |-> <<>>, kwargs |-> [body |-> e.body]],
              !.events = @ \o <<"write", "raise">>,
              !.pc = "done"]

\* one call of msearch by the search method
MsearchAttempt(e, ok) ==
    LET tried == [e EXCEPT !.attempts = @ + 1]
    IN  IF ok THEN [tried EXCEPT !.events = @ \o <<"return">>, !.pc = "done"]
        ELSE IF ~RetryWrapped(e.retry_times)
        THEN [tried EXCEPT !.events = @ \o <<"raise">>, !.pc = "done"]
        ELSE IF StopAfterAttempt(e.retry_times, tried.attempts)
        THEN SaveErrorState(tried)
        ELSE tried

ElasticIdle == es = [pc |-> "idle", file |-> None]

\* search_batch: _full_text_search or _string_search, up to the first
\* msearch call
ElasticSearch ==
    /\ es.pc \in {"idle", "done"}
    /\ \E search_method \in ElasticSearchMethods, query \in ElasticQueries,
          retry_times \in RetryTimes :
          es' = [pc |-> "msearch", file |-> es.file, retry_times |-> retry_times,
                 body |-> MsearchBody(search_method, query),
                 attempts |-> 0, events |-> <<>>]
    /\ UNCHANGED nonElasticVars

ElasticMsearch ==
    /\ es.pc = "msearch"
    /\ \E ok \in BOOLEAN : es' = MsearchAttempt(es, ok)
    /\ UNCHANGED nonElasticVars

ElasticNext == ElasticSearch \/ ElasticMsearch

\* ----------------------------------------------------------------- time meter

\* bound of the time-meter model
MaxCallers == 3         \* concurrent calls under one timer name

Callers == 1..MaxCallers

\* the managed lists: list 0 is the series of a name that exists before the
\* calls, list c is the list caller c creates
ListIds == 0..MaxCallers

\* timer_names not in self.timers
NotInTimers(timers) == timers = None

\* self.timers[timer_names] = self._manager.list(): a new empty list is
\* bound to the name, whatever was bound before
NewSeries(t, c) ==
    [t EXCEPT !.timers = [list |-> c], !.lists = [@ EXCEPT ![c] = <<>>]]

\* one operation on the shared manager by caller c, in the order of
\* wrapper: the membership test, the creation, the lookup, the append
WrapperStep(t, c) ==
    CASE t.pc[c] = "returned" ->
            [t EXCEPT !.pc = [@ EXCEPT ![c] = IF NotInTimers(t.timers) THEN "create" ELSE "lookup"]]
      [] t.pc[c] = "create" ->
            [NewSeries(t, c) EXCEPT !.pc = [@ EXCEPT ![c] = "lookup"]]
      [] t.pc[c] = "lookup" ->
            [t EXCEPT !.ref = [@ EXCEPT ![c] = t.timers.list],
                      !.pc = [@ EXCEPT ![c] = "append"]]
      [] t.pc[c] = "append" ->
            [t EXCEPT !.lists = [@ EXCEPT ![t.ref[c]] = Append(@, c)],
                      !.pc = [@ EXCEPT ![c] = "done"]]

MeterIdle == tm = [pc |-> "idle"]

\* n callers call functions wrapped under one name; the series of the name
\* exists already or does not
MeterStart ==
    /\ tm = [pc |-> "idle"]
    /\ \E n \in Callers, exists \in BOOLEAN :
          tm' = [n |-> n, existed |-> exists,
                 timers |-> IF exists THEN [list |-> 0] ELSE None,
                 lists |-> [i \in ListIds |-> <<>>],
                 ref |-> [c \in Callers |-> 0],
                 pc |-> [c \in Callers |-> IF c <= n THEN "calling" ELSE "absent"]]
    /\ UNCHANGED nonMeterVars

\* result = func(*args, **kwargs) returns
FuncReturns ==
    /\ tm # [pc |-> "idle"]
    /\ \E c \in Callers :
          /\ tm.pc[c] = "calling"
          /\ tm' = [tm EXCEPT !.pc = [@ EXCEPT ![c] = "returned"]]
    /\ UNCHANGED nonMeterVars

WrapperRecords ==
    /\ tm # [pc |-> "idle"]
    /\ \E c \in Callers :
          /\ tm.pc[c] \in {"returned", "create", "lookup", "append"}
          /\ tm' = WrapperStep(tm, c)
    /\ UNCHANGED nonMeterVars

MeterNext == MeterStart \/ FuncReturns \/ WrapperRecords

\* --------------------------------------------------------- rerank API ranker

\* bound of the ranker model
MaxCandidates == 3      \* candidates of one rank call

RankOps == {"_rank", "_async_rank"}
RelevanceScores == {1, 5, 9}

\* the orders in which the endpoint can list its results: each result names
\* the index of its document
ResultOrders(n) == {p \in [1..n -> 1..n] : \A i, j \in 1..n : p[i] = p[j] => i = j}

\* client.rerank(documents=candidates, top_n=len(candidates)): one result
\* per document, with the document's index and its relevance score
Rerank(relevance, order) ==
    [k \in 1..Len(relevance) |->
        [index |-> order[k], relevance_score |-> relevance[order[k]]]]

\* scores = [i.relevance_score for i in result.results]
ScoresOf(results) == [k \in 1..Len(results) |-> results[k].relevance_score]

RankerIdle == rk = [pc |-> "idle"]

\* _rank and _async_rank: the same request and the same comprehension
CohereRank ==
    /\ rk.pc = "idle"
    /\ \E op \in RankOps, n \in 1..MaxCandidates :
          \E relevance \in [1..n -> RelevanceScores], order \in ResultOrders(n) :
              rk' = [pc |-> "done", op |-> op, relevance |-> relevance,
                     results |-> Rerank(relevance, order),
                     returned |-> [indices |-> None,
                                   scores |-> ScoresOf(Rerank(relevance, order))]]
    /\ UNCHANGED nonRankerVars

RankerNext == CohereRank

\* --------------------------------------- chat prompt instances and their lists

\* bounds of the instance model
MaxInstances == 3       \* ChatPrompt instances constructed
MaxLists == 5           \* list objects allocated
MaxTurns == 2           \* turns held by one list

\* the list objects that exist when the class is defined: the default value
\* of the history parameter and that of the demonstrations parameter; a
\* default value is evaluated once, at the definition of __init__
DefaultHistory == 1
DefaultDemonstrations == 2

\* ChatPrompt.__init__: self.history = history, self.demonstrations =
\* demonstrations; no copy is made.  An argument given by the caller is a new
\* empty list here
NewChatPrompt(s, with_arguments) ==
    IF with_arguments
    THEN [s EXCEPT !.lists = @ \o <<<<>>, <<>>>>,
                   !.prompts = Append(@, [history |-> Len(s.lists) + 1,
                                          demonstrations |-> Len(s.lists) + 2]),
                   !.last = [op |-> "construct", with_arguments |-> TRUE]]
    ELSE [s EXCEPT !.prompts = Append(@, [history |-> DefaultHistory,
                                          demonstrations |-> DefaultDemonstrations]),
                   !.last = [op |-> "construct", with_arguments |-> FALSE]]

\* the history of every instance, as a reader sees it
Histories(s) == [p \in 1..Len(s.prompts) |-> s.lists[s.prompts[p].history]]

\* ChatPrompt.update: self.history.append(chat_turn)
UpdateOf(s, p) ==
    [s EXCEPT !.lists = [@ EXCEPT ![s.prompts[p].history] = Append(@, "turn")],
              !.last = [op |-> "update", prompt |-> p, before |-> Histories(s)]]

\* ChatPrompt.pop_history(0): self.history.pop(0)
PopHistoryOf(s, p) ==
    [s EXCEPT !.lists = [@ EXCEPT ![s.prompts[p].history] = Tail(@)],
              !.last = [op |-> "pop_history", prompt |-> p, before |-> Histories(s)]]

\* ChatPrompt.clear: self.history = [], self.demonstrations = []
ClearOf(s, p) ==
    [s EXCEPT !.lists = @ \o <<<<>>, <<>>>>,
              !.prompts = [@ EXCEPT ![p] = [history |-> Len(s.lists) + 1,
                                            demonstrations |-> Len(s.lists) + 2]],
              !.last = [op |-> "clear", prompt |-> p, before |-> Histories(s)]]

\* the class is defined, no instance exists
SharedIdle == sh = [lists |-> <<<<>>, <<>>>>, prompts |-> <<>>, last |-> [op |-> "none"]]

ConstructPrompt ==
    /\ Len(sh.prompts) < MaxInstances
    /\ \E with_arguments \in BOOLEAN :
          /\ with_arguments => Len(sh.lists) + 2 <= MaxLists
          /\ sh' = NewChatPrompt(sh, with_arguments)
    /\ UNCHANGED nonSharedVars

UpdatePrompt ==
    /\ \E p \in 1..Len(sh.prompts) :
          /\ Len(sh.lists[sh.prompts[p].history]) < MaxTurns
          /\ sh' = UpdateOf(sh, p)
    /\ UNCHANGED nonSharedVars

PopPrompt ==
    /\ \E p \in 1..Len(sh.prompts) :
          /\ Len(sh.lists[sh.prompts[p].history]) > 0
          /\ sh' = PopHistoryOf(sh, p)
    /\ UNCHANGED nonSharedVars

ClearPrompt ==
    /\ \E p \in 1..Len(sh.prompts) :
          /\ Len(sh.lists) + 2 <= MaxLists
          /\ sh' = ClearOf(sh, p)
    /\ UNCHANGED nonSharedVars

SharedNext == ConstructPrompt \/ UpdatePrompt \/ PopPrompt \/ ClearPrompt

\* -------------------------------------------------------------- logger manager

\* bound of the logger-manager model
MaxThreads == 3         \* threads that construct LoggerManager()

Threads == 1..MaxThreads

\* one step of thread t in __new__ and in the get_logger call that follows:
\*   check     if not cls._instance              (outside the lock)
\*   lock      with cls._lock                    (waits for the lock)
\*   recheck   if not cls._instance              (inside the lock)
\*   assign    cls._instance = super().__new__(cls)
\*   configure cls._instance._configure()        (creates self.loggers)
\*   unlock    leaves the with block
\*   return    return cls._instance
\*   get       get_logger(name) on the instance returned
NewStep(m, t) ==
    CASE m.pc[t] = "check" ->
            [m EXCEPT !.pc[t] = IF m.instance = 0 THEN "lock" ELSE "return"]
      [] m.pc[t] = "lock" ->
            [m EXCEPT !.lock = t, !.pc[t] = "recheck"]
      [] m.pc[t] = "recheck" ->
            [m EXCEPT !.pc[t] = IF m.instance = 0 THEN "assign" ELSE "unlock"]
      [] m.pc[t] = "assign" ->
            [m EXCEPT !.instance = m.created + 1, !.created = @ + 1,
                      !.pc[t] = "configure"]
      [] m.pc[t] = "configure" ->
            [m EXCEPT !.loggers = TRUE, !.configured = @ + 1, !.pc[t] = "unlock"]
      [] m.pc[t] = "unlock" ->
            [m EXCEPT !.lock = 0, !.pc[t] = "return"]
      [] m.pc[t] = "return" ->
            [m EXCEPT !.got[t] = m.instance, !.pc[t] = "get"]
      [] m.pc[t] = "get" ->
            [m EXCEPT !.pc[t] = IF m.loggers THEN "done" ELSE "AttributeError"]

\* thread t can take its step: the lock is taken by one thread at a time
CanStep(m, t) ==
    /\ m.pc[t] \in {"check", "lock", "recheck", "assign", "configure", "unlock",
                    "return", "get"}
    /\ m.pc[t] = "lock" => m.lock = 0

\* the class is defined: _instance = None, _lock free
LoggerIdle ==
    lm = [instance |-> 0, created |-> 0, configured |-> 0, loggers |-> FALSE,
          lock |-> 0, pc |-> [t \in Threads |-> "idle"], got |-> [t \in Threads |-> 0]]

\* a thread calls LoggerManager()
LoggerManagerCall ==
    /\ \E t \in Threads :
          /\ lm.pc[t] = "idle"
          /\ lm' = [lm EXCEPT !.pc[t] = "check"]
    /\ UNCHANGED nonLoggerVars

LoggerManagerStep ==
    /\ \E t \in Threads :
          /\ CanStep(lm, t)
          /\ lm' = NewStep(lm, t)
    /\ UNCHANGED nonLoggerVars

LoggerNext == LoggerManagerCall \/ LoggerManagerStep

\* ------------------------------------------------------------ index-build tool

\* bound of the tool model
MaxStored == 2          \* passages in the store when the tool starts

RetrieverTypes == {"dense", "elastic", "milvus", "typesense"}

\* line 64: cfg.reinit and (len(retriever) > 0)
ShouldClean(reinit, stored) == reinit /\ stored > 0

\* the statements of main after the retriever is loaded, in program order;
\* each invokes one operation of the retriever, and an operation that raises
\* ends the run
MainStep(r, raises) ==
    LET invoked(op) == [r EXCEPT !.calls = Append(@, op)]
    IN  CASE r.pc = "len" ->
                IF ~r.reinit THEN [r EXCEPT !.pc = "add_passages"]
                ELSE IF raises THEN [invoked("len") EXCEPT !.pc = "error"]
                ELSE [invoked("len") EXCEPT
                        !.pc = IF ShouldClean(r.reinit, r.stored) THEN "clean"
                               ELSE "add_passages"]
          [] r.pc = "clean" ->
                [invoked("clean") EXCEPT !.pc = IF raises THEN "error" ELSE "add_passages"]
          [] r.pc = "add_passages" ->
                [invoked("add_passages") EXCEPT !.pc = IF raises THEN "error" ELSE "close"]
          [] r.pc = "close" ->
                [invoked("close") EXCEPT !.pc = IF raises THEN "error" ELSE "search"]
          [] r.pc = "search" ->
                [invoked("search") EXCEPT !.pc = IF raises THEN "error" ELSE "done"]

ToolIdle == tool = [pc |-> "idle"]

\* lines 49-61: the configuration is merged and the retriever is loaded
ToolMain ==
    /\ tool.pc = "idle"
    /\ \E retriever_type \in RetrieverTypes, reinit \in BOOLEAN, stored \in 0..MaxStored :
          tool' = [pc |-> "len", retriever_type |-> retriever_type, reinit |-> reinit,
                   stored |-> stored, calls |-> <<>>]
    /\ UNCHANGED nonToolVars

ToolStep ==
    /\ tool.pc \in {"len", "clean", "add_passages", "close", "search"}
    /\ \E raises \in BOOLEAN : tool' = MainStep(tool, raises)
    /\ UNCHANGED nonToolVars

ToolNext == ToolMain \/ ToolStep

\* ---------------------------------------------------------- specifications

InitCache ==
    /\ CacheInit
    /\ RegIdle
    /\ PromptIdle
    /\ RenderIdle
    /\ SearcherIdle
    /\ GenerationIdle
    /\ AssistantIdle
    /\ FanOutIdle
    /\ AsyncIdle
    /\ DenseIdle
    /\ MergeIdle
    /\ DownloadIdle
    /\ MetricIdle
    /\ EnvIdle
    /\ ElasticIdle
    /\ MeterIdle
    /\ RankerIdle
    /\ SharedIdle
    /\ LoggerIdle
    /\ ToolIdle
SpecCache == InitCache /\ [][CacheNext]_vars

InitRegister ==
    /\ RegInit
    /\ CacheIdle
    /\ PromptIdle
    /\ RenderIdle
    /\ SearcherIdle
    /\ GenerationIdle
    /\ AssistantIdle
    /\ FanOutIdle
    /\ AsyncIdle
    /\ DenseIdle
    /\ MergeIdle
    /\ DownloadIdle
    /\ MetricIdle
    /\ EnvIdle
    /\ ElasticIdle
    /\ MeterIdle
    /\ RankerIdle
    /\ SharedIdle
    /\ LoggerIdle
    /\ ToolIdle
SpecRegister == InitRegister /\ [][RegNext]_vars

InitPrompt ==
    /\ PromptInit
    /\ CacheIdle
    /\ RegIdle
    /\ RenderIdle
    /\ SearcherIdle
    /\ GenerationIdle
    /\ AssistantIdle
    /\ FanOutIdle
    /\ AsyncIdle
    /\ DenseIdle
    /\ MergeIdle
    /\ DownloadIdle
    /\ MetricIdle
    /\ EnvIdle
    /\ ElasticIdle
    /\ MeterIdle
    /\ RankerIdle
    /\ SharedIdle
    /\ LoggerIdle
    /\ ToolIdle
SpecPrompt == InitPrompt /\ [][PromptNext]_vars

InitRender ==
    /\ RenderIdle
    /\ CacheIdle
    /\ RegIdle
    /\ PromptIdle
    /\ SearcherIdle
    /\ GenerationIdle
    /\ AssistantIdle
    /\ FanOutIdle
    /\ AsyncIdle
    /\ DenseIdle
    /\ MergeIdle
    /\ DownloadIdle
    /\ MetricIdle
    /\ EnvIdle
    /\ ElasticIdle
    /\ MeterIdle
    /\ RankerIdle
    /\ SharedIdle
    /\ LoggerIdle
    /\ ToolIdle
SpecRender == InitRender /\ [][RenderNext]_vars

InitSearcher ==
    /\ SearcherIdle
    /\ CacheIdle
    /\ RegIdle
    /\ PromptIdle
    /\ RenderIdle
    /\ GenerationIdle
    /\ AssistantIdle
    /\ FanOutIdle
    /\ AsyncIdle
    /\ DenseIdle
    /\ MergeIdle
    /\ DownloadIdle
    /\ MetricIdle
    /\ EnvIdle
    /\ ElasticIdle
    /\ MeterIdle
    /\ RankerIdle
    /\ SharedIdle
    /\ LoggerIdle
    /\ ToolIdle
SpecSearcher == InitSearcher /\ [][SearcherNext]_vars

\* a search that was started keeps running: the loop of search has no wait
SpecSearcherFair ==
    SpecSearcher /\ WF_vars(Retrieve \/ Verify \/ Refine \/ Finish)

InitGeneration ==
    /\ GenerationIdle
    /\ CacheIdle
    /\ RegIdle
    /\ PromptIdle
    /\ RenderIdle
    /\ SearcherIdle
    /\ AssistantIdle
    /\ FanOutIdle
    /\ AsyncIdle
    /\ DenseIdle
    /\ MergeIdle
    /\ DownloadIdle
    /\ MetricIdle
    /\ EnvIdle
    /\ ElasticIdle
    /\ MeterIdle
    /\ RankerIdle
    /\ SharedIdle
    /\ LoggerIdle
    /\ ToolIdle
SpecGeneration == InitGeneration /\ [][GenerationNext]_vars

InitAssistant ==
    /\ AssistantInit
    /\ CacheIdle
    /\ RegIdle
    /\ PromptIdle
    /\ RenderIdle
    /\ SearcherIdle
    /\ GenerationIdle
    /\ FanOutIdle
    /\ AsyncIdle
    /\ DenseIdle
    /\ MergeIdle
    /\ DownloadIdle
    /\ MetricIdle
    /\ EnvIdle
    /\ ElasticIdle
    /\ MeterIdle
    /\ RankerIdle
    /\ SharedIdle
    /\ LoggerIdle
    /\ ToolIdle
SpecAssistant == InitAssistant /\ [][AssistantNext]_vars

\* the assistant, or render_to_ids on its own where no assistant exists
RenderAlone == AssistantIdle /\ RenderNext
FrameNext == AssistantNext \/ RenderAlone
SpecFrame == (InitAssistant \/ InitRender) /\ [][FrameNext]_vars

InitFanOut ==
    /\ FanOutIdle
    /\ CacheIdle
    /\ RegIdle
    /\ PromptIdle
    /\ RenderIdle
    /\ SearcherIdle
    /\ GenerationIdle
    /\ AssistantIdle
    /\ AsyncIdle
    /\ DenseIdle
    /\ MergeIdle
    /\ DownloadIdle
    /\ MetricIdle
    /\ EnvIdle
    /\ ElasticIdle
    /\ MeterIdle
    /\ RankerIdle
    /\ SharedIdle
    /\ LoggerIdle
    /\ ToolIdle
SpecFanOut == InitFanOut /\ [][FanOutNext]_vars

InitAsync ==
    /\ AsyncIdle
    /\ CacheIdle
    /\ RegIdle
    /\ PromptIdle
    /\ RenderIdle
    /\ SearcherIdle
    /\ GenerationIdle
    /\ AssistantIdle
    /\ FanOutIdle
    /\ DenseIdle
    /\ MergeIdle
    /\ DownloadIdle
    /\ MetricIdle
    /\ EnvIdle
    /\ ElasticIdle
    /\ MeterIdle
    /\ RankerIdle
    /\ SharedIdle
    /\ LoggerIdle
    /\ ToolIdle
SpecAsync == InitAsync /\ [][AsyncNext]_vars

InitDense ==
    /\ DenseIdle
    /\ CacheIdle
    /\ RegIdle
    /\ PromptIdle
    /\ RenderIdle
    /\ SearcherIdle
    /\ GenerationIdle
    /\ AssistantIdle
    /\ FanOutIdle
    /\ AsyncIdle
    /\ MergeIdle
    /\ DownloadIdle
    /\ MetricIdle
    /\ EnvIdle
    /\ ElasticIdle
    /\ MeterIdle
    /\ RankerIdle
    /\ SharedIdle
    /\ LoggerIdle
    /\ ToolIdle
SpecDense == InitDense /\ [][DenseNext]_vars

InitMerge ==
    /\ MergeIdle
    /\ CacheIdle
    /\ RegIdle
    /\ PromptIdle
    /\ RenderIdle
    /\ SearcherIdle
    /\ GenerationIdle
    /\ AssistantIdle
    /\ FanOutIdle
    /\ AsyncIdle
    /\ DenseIdle
    /\ DownloadIdle
    /\ MetricIdle
    /\ EnvIdle
    /\ ElasticIdle
    /\ MeterIdle
    /\ RankerIdle
    /\ SharedIdle
    /\ LoggerIdle
    /\ ToolIdle
SpecMerge == InitMerge /\ [][MergeNext]_vars

InitDownload ==
    /\ DownloadIdle
    /\ CacheIdle
    /\ RegIdle
    /\ PromptIdle
    /\ RenderIdle
    /\ SearcherIdle
    /\ GenerationIdle
    /\ AssistantIdle
    /\ FanOutIdle
    /\ AsyncIdle
    /\ DenseIdle
    /\ MergeIdle
    /\ MetricIdle
    /\ EnvIdle
    /\ ElasticIdle
    /\ MeterIdle
    /\ RankerIdle
    /\ SharedIdle
    /\ LoggerIdle
    /\ ToolIdle
SpecDownload == InitDownload /\ [][DownloadNext]_vars

InitMetric ==
    /\ MetricIdle
    /\ CacheIdle
    /\ RegIdle
    /\ PromptIdle
    /\ RenderIdle
    /\ SearcherIdle
    /\ GenerationIdle
    /\ AssistantIdle
    /\ FanOutIdle
    /\ AsyncIdle
    /\ DenseIdle
    /\ MergeIdle
    /\ DownloadIdle
    /\ EnvIdle
    /\ ElasticIdle
    /\ MeterIdle
    /\ RankerIdle
    /\ SharedIdle
    /\ LoggerIdle
    /\ ToolIdle
SpecMetric == InitMetric /\ [][MetricNext]_vars

InitEnv ==
    /\ EnvIdle
    /\ RegIdle
    /\ PromptIdle
    /\ RenderIdle
    /\ SearcherIdle
    /\ GenerationIdle
    /\ AssistantIdle
    /\ FanOutIdle
    /\ AsyncIdle
    /\ DenseIdle
    /\ MergeIdle
    /\ DownloadIdle
    /\ MetricIdle
    /\ CacheIdle
    /\ ElasticIdle
    /\ MeterIdle
    /\ RankerIdle
    /\ SharedIdle
    /\ LoggerIdle
    /\ ToolIdle
SpecEnv == InitEnv /\ [][EnvNext]_vars

InitElastic ==
    /\ ElasticIdle
    /\ RegIdle
    /\ PromptIdle
    /\ RenderIdle
    /\ SearcherIdle
    /\ GenerationIdle
    /\ AssistantIdle
    /\ FanOutIdle
    /\ AsyncIdle
    /\ DenseIdle
    /\ MergeIdle
    /\ DownloadIdle
    /\ MetricIdle
    /\ EnvIdle
    /\ CacheIdle
    /\ MeterIdle
    /\ RankerIdle
    /\ SharedIdle
    /\ LoggerIdle
    /\ ToolIdle
SpecElastic == InitElastic /\ [][ElasticNext]_vars

InitMeter ==
    /\ MeterIdle
    /\ RegIdle
    /\ PromptIdle
    /\ RenderIdle
    /\ SearcherIdle
    /\ GenerationIdle
    /\ AssistantIdle
    /\ FanOutIdle
    /\ AsyncIdle
    /\ DenseIdle
    /\ MergeIdle
    /\ DownloadIdle
    /\ MetricIdle
    /\ EnvIdle
    /\ ElasticIdle
    /\ CacheIdle
    /\ RankerIdle
    /\ SharedIdle
    /\ LoggerIdle
    /\ ToolIdle
SpecMeter == InitMeter /\ [][MeterNext]_vars

InitRanker ==
    /\ RankerIdle
    /\ RegIdle
    /\ PromptIdle
    /\ RenderIdle
    /\ SearcherIdle
    /\ GenerationIdle
    /\ AssistantIdle
    /\ FanOutIdle
    /\ AsyncIdle
    /\ DenseIdle
    /\ MergeIdle
    /\ DownloadIdle
    /\ MetricIdle
    /\ EnvIdle
    /\ ElasticIdle
    /\ MeterIdle
    /\ CacheIdle
    /\ SharedIdle
    /\ LoggerIdle
    /\ ToolIdle
SpecRanker == InitRanker /\ [][RankerNext]_vars

InitShared ==
    /\ SharedIdle
    /\ RegIdle
    /\ PromptIdle
    /\ RenderIdle
    /\ SearcherIdle
    /\ GenerationIdle
    /\ AssistantIdle
    /\ FanOutIdle
    /\ AsyncIdle
    /\ DenseIdle
    /\ MergeIdle
    /\ DownloadIdle
    /\ MetricIdle
    /\ EnvIdle
    /\ ElasticIdle
    /\ MeterIdle
    /\ RankerIdle
    /\ CacheIdle
    /\ LoggerIdle
    /\ ToolIdle
SpecShared == InitShared /\ [][SharedNext]_vars

InitLogger ==
    /\ LoggerIdle
    /\ RegIdle
    /\ PromptIdle
    /\ RenderIdle
    /\ SearcherIdle
    /\ GenerationIdle
    /\ AssistantIdle
    /\ FanOutIdle
    /\ AsyncIdle
    /\ DenseIdle
    /\ MergeIdle
    /\ DownloadIdle
    /\ MetricIdle
    /\ EnvIdle
    /\ ElasticIdle
    /\ MeterIdle
    /\ RankerIdle
    /\ SharedIdle
    /\ CacheIdle
    /\ ToolIdle
SpecLogger == InitLogger /\ [][LoggerNext]_vars

InitTool ==
    /\ ToolIdle
    /\ RegIdle
    /\ PromptIdle
    /\ RenderIdle
    /\ SearcherIdle
    /\ GenerationIdle
    /\ AssistantIdle
    /\ FanOutIdle
    /\ AsyncIdle
    /\ DenseIdle
    /\ MergeIdle
    /\ DownloadIdle
    /\ MetricIdle
    /\ EnvIdle
    /\ ElasticIdle
    /\ MeterIdle
    /\ RankerIdle
    /\ SharedIdle
    /\ LoggerIdle
    /\ CacheIdle
SpecTool == InitTool /\ [][ToolNext]_vars


\* every declared name of the entry registered under main name m
DeclaredNames(m) == {m} \cup Range(items[m].short_names)

\* C3: a registration whose main name or any alias equals an existing main
\* name or alias fails and leaves the registry unchanged; no name is both a
\* main name and an alias; every declared name (main name and each alias) of
\* every registered entry resolves to that entry.
C3_RegistryNamesUnique ==
    /\ (/\ regOp.op = "register"
        /\ \E n \in {regOp.main_name} \cup Range(regOp.short_names) :
              n \in RegNames(regOp.items_before, regOp.shortcuts_before))
          => /\ regOp.outcome = "AssertionError"
             /\ items = regOp.items_before
             /\ shortcuts = regOp.shortcuts_before
    /\ DOMAIN items \cap DOMAIN shortcuts = {}
    /\ \A m \in DOMAIN items :
          \A n \in DeclaredNames(m) : GetItem(items, shortcuts, n) = items[m]

\* C4: load fails with the unknown-backend error whenever a chosen name is not
\* registered, for a single name and for a list of names; for a list of
\* registered names it returns one instance per chosen name, in the order
\* chosen; with the discriminator unset it returns None and instantiates
\* nothing.
C4_LoadUnknownBackendFails ==
    (regOp.op = "load" /\ regOp.make_config = "ok") =>
        LET known == RegNames(items, shortcuts)
            c == regOp.choice
        IN  /\ (c.kind = "single" /\ c.name \notin known)
                  => regOp.outcome = "ValueError"
            /\ (c.kind = "list" /\ \E i \in 1..Len(c.names) : c.names[i] \notin known)
                  => regOp.outcome = "ValueError"
            /\ (c.kind = "list" /\ \A i \in 1..Len(c.names) : c.names[i] \in known)
                  => /\ regOp.outcome = "ok"
                     /\ Len(regOp.loaded) = Len(c.names)
                     /\ \A i \in 1..Len(c.names) :
                           regOp.loaded[i].item =
                               GetItem(items, shortcuts, c.names[i]).item
            /\ c.kind = "unset"
                  => /\ regOp.outcome = "ok"
                     /\ regOp.returns = "None"
                     /\ regOp.loaded = <<>>

\* C5: for every registry state make_config succeeds, and load on a
\* configuration of that type with the discriminator set to a declared name of
\* a registered backend X instantiates X exactly once and nothing else, with
\* X's nested sub-configuration when X has one and without one otherwise.
C5_LoadConstructsChosenBackend ==
    /\ MakeConfig(items, shortcuts).outcome = "ok"
    /\ (/\ regOp.op = "load"
        /\ regOp.choice.kind = "single"
        /\ regOp.choice.name \in RegNames(items, shortcuts))
          => LET X == GetItem(items, shortcuts, regOp.choice.name)
             IN  /\ regOp.make_config = "ok"
                 /\ regOp.outcome = "ok"
                 /\ regOp.loaded =
                       <<[item |-> X.item,
                          sub_cfg |-> IF X.config_class # "None"
                                      THEN DefaultConfig(X.main_name) ELSE None]>>


\* the number of turns of the first d demonstrations of the prompt
RECURSIVE DemoTurnsBefore(_)
DemoTurnsBefore(d) ==
    IF d = 0 THEN 0 ELSE DemoTurnsBefore(d - 1) + Len(cp.demonstrations[d])

\* C6: to_list returns the system turn first if one is present, then the
\* turns of every demonstration in demonstration order, then the history turns
\* in history order, and nothing else.
C6_ToListOrder ==
    LET r == ToList(cp)
        nsys == IF cp.system = None THEN 0 ELSE 1
        ndemo == DemoTurnsBefore(Len(cp.demonstrations))
    IN  /\ r.outcome = "ok"
        /\ Len(r.data) = nsys + ndemo + Len(cp.history)
        /\ nsys = 1 => r.data[1] = [role |-> "system", content |-> cp.system.content]
        /\ \A d \in 1..Len(cp.demonstrations) :
              \A i \in 1..Len(cp.demonstrations[d]) :
                  r.data[nsys + DemoTurnsBefore(d - 1) + i]
                      = TurnToDict(cp.demonstrations[d][i])
        /\ \A h \in 1..Len(cp.history) :
              /\ cp.history[h].cls = "ChatTurn"
              /\ r.data[nsys + ndemo + h] = TurnToDict(cp.history[h])


\* a render_to_ids call with a max_length and the given truncation strategy
RenderingWith(truncation) ==
    /\ render.pc # "idle"
    /\ render.max_length # None
    /\ render.truncation = truncation

\* C7: with the auto strategy render_to_ids never raises, returns a token
\* sequence no longer than max_length, and terminates: once nothing is left to
\* drop, the hard truncation brings the sequence within max_length, so the
\* loop ends.
C7_AutoFitsAndNeverRaises ==
    RenderingWith("auto") =>
        /\ render.out \in {"none", "ok"}
        /\ (render.pc = "done" /\ render.out = "ok") =>
              Len(render.ids) <= render.max_length.n
        /\ (render.fell_back /\ render.out \in {"none", "ok"}) =>
              Len(render.pre_ids) <= render.max_length.n

\* the caller's prompt without its k oldest pairs of history turns
WithoutPairs(k) ==
    [render.prompt EXCEPT !.history = SubSeq(@, 2 * k + 1, Len(@))]

\* the caller's prompt without its k oldest demonstrations
WithoutDemos(k) ==
    [render.prompt EXCEPT !.demonstrations = SubSeq(@, k + 1, Len(@))]

\* prompt p renders and its token sequence is no longer than max_length
Fits(p) ==
    LET e == EncodePlain(p, render.tpl)
    IN  e.outcome = "ok" /\ Len(e.ids) <= render.max_length.n

\* prompt p renders and its token sequence is longer than max_length
TooLong(p) ==
    LET e == EncodePlain(p, render.tpl)
    IN  e.outcome = "ok" /\ Len(e.ids) > render.max_length.n

\* C8: for a prompt longer than max_length, the history strategy returns the
\* encoding of the prompt without the smallest number of oldest history pairs
\* that makes it fit, leaving the system turn and the demonstrations alone, and
\* raises the length-exceeded error exactly when no number of whole pairs makes
\* it fit (the prompt is still too long with fewer than 2 history turns left).
C8_HistoryDropsOldestPairs ==
    (RenderingWith("history") /\ render.pc = "done" /\ TooLong(render.prompt)) =>
        LET pairs == Len(render.prompt.history) \div 2
            fitting == {k \in 0..pairs : Fits(WithoutPairs(k))}
        IN  /\ render.out \in {"ok", "ValueError"}
            /\ render.out = "ValueError" <=> fitting = {}
            /\ render.out = "ok" =>
                  LET k == CHOOSE k \in fitting : \A j \in fitting : k <= j
                  IN  /\ render.ids = EncodePlain(WithoutPairs(k), render.tpl).ids
                      /\ render.work = WithoutPairs(k)

\* C9: the demo strategy returns the token ids of the prompt without the
\* fewest oldest demonstrations that bring it within max_length (none when it
\* already fits), and raises the length-exceeded error only when the prompt
\* without any demonstration is still longer than max_length.
C9_DemoDropsOldestDemos ==
    (RenderingWith("demo") /\ render.pc = "done") =>
        LET n == Len(render.prompt.demonstrations)
            fitting == {k \in 0..n : Fits(WithoutDemos(k))}
        IN  /\ render.out \in {"ok", "ValueError"}
            /\ render.out = "ValueError" => ~Fits(WithoutDemos(n))
            /\ fitting # {} =>
                  LET k == CHOOSE k \in fitting : \A j \in fitting : k <= j
                  IN  /\ render.out = "ok"
                      /\ render.ids = EncodePlain(WithoutDemos(k), render.tpl).ids

\* the depth of the entry popped in the round that call i belongs to
RoundDepth(i) ==
    LET j == CHOOSE j \in 1..i :
                 /\ bm25.calls[j].kind = "retrieve"
                 /\ \A l \in (j + 1)..i : bm25.calls[l].kind # "retrieve"
    IN  bm25.calls[j].depth

\* C10: with feedback_depth k, every entry of the work queue (waiting or
\* popped) has a depth between 1 and k+1, every child is queued at its
\* parent's depth plus 1, and no retrieval, judge or refine call follows the
\* first round that the judge reports as sufficient.
C10_DepthBoundedAndStopsWhenSufficient ==
    bm25.pc # "idle" =>
        LET k == bm25.feedback_depth
            calls == bm25.calls
        IN  /\ \A i \in 1..Len(bm25.search_stack) :
                  bm25.search_stack[i].depth \in 1..(k + 1)
            /\ \A i \in 1..Len(calls) :
                  /\ calls[i].kind = "retrieve" => calls[i].depth \in 1..(k + 1)
                  /\ calls[i].kind = "refine" =>
                        \A c \in 1..Len(calls[i].children) :
                            calls[i].children[c].depth = RoundDepth(i) + 1
                  /\ (calls[i].kind = "verify" /\ calls[i].result) => i = Len(calls)

\* a search with feedback that refined its query down to the maximum depth and
\* ended there on a round the judge found sufficient
C10_Witness ==
    /\ bm25.pc = "done"
    /\ bm25.out = "ok"
    /\ bm25.feedback_depth >= 1
    /\ bm25.depth = bm25.feedback_depth + 1
    /\ \E i \in 1..Len(bm25.calls) :
          bm25.calls[i].kind = "refine" /\ Len(bm25.calls[i].children) > 0
    /\ bm25.calls[Len(bm25.calls)] = [kind |-> "verify", result |-> TRUE]

\* the calls of the given kind made so far, in call order
CallsOfKind(kind) == SelectSeq(bm25.calls, LAMBDA c : c.kind = kind)

\* C11: with feedback_depth = 0 the search makes no judge call and no refine
\* call and at most one retrieval call, and when it returns it has made
\* exactly one retrieval call and returns the contexts of that round.
C11_SingleRoundWithoutFeedback ==
    (bm25.pc # "idle" /\ bm25.feedback_depth = 0) =>
        /\ CallsOfKind("verify") = <<>>
        /\ CallsOfKind("refine") = <<>>
        /\ Len(CallsOfKind("retrieve")) <= 1
        /\ (bm25.pc = "done" /\ bm25.out = "ok") =>
              /\ Len(CallsOfKind("retrieve")) = 1
              /\ bm25.returns.ctxs = Contexts(CallsOfKind("retrieve")[1].query)

\* a search without feedback that has returned
C11_Witness ==
    /\ bm25.pc = "done"
    /\ bm25.out = "ok"
    /\ bm25.feedback_depth = 0
    /\ Len(bm25.returns.retrieval_history) = 1

\* C12: when the search returns, the retrieval history holds exactly one
\* entry (query and contexts) per retrieval call, in the order the calls were
\* made, and the returned contexts are those of the last history entry,
\* whether that round was judged sufficient or the queue ran empty.
C12_HistoryRecordsEveryRound ==
    (bm25.pc = "done" /\ bm25.out = "ok") =>
        LET history == bm25.returns.retrieval_history
            retrieved == CallsOfKind("retrieve")
        IN  /\ Len(history) = Len(retrieved)
            /\ \A i \in 1..Len(history) :
                  history[i] = [query |-> retrieved[i].query,
                                ctxs |-> Contexts(retrieved[i].query)]
            /\ Len(history) >= 1
            /\ bm25.returns.ctxs = history[Len(history)].ctxs

\* a search that returned after three rounds with different queries, none of
\* them judged sufficient
C12_Witness ==
    /\ bm25.pc = "done"
    /\ bm25.out = "ok"
    /\ Len(bm25.returns.retrieval_history) = 3
    /\ bm25.returns.retrieval_history[1].query
           # bm25.returns.retrieval_history[3].query
    /\ \A i \in 1..Len(bm25.calls) :
          bm25.calls[i].kind = "verify" => ~bm25.calls[i].result

\* C13: constructing a GenerationConfig succeeds if and only if
\* sample_num >= 1, sample_num > 1 implies do_sample, temperature >= 0,
\* max_new_tokens > 0, 0 <= top_p <= 1 and top_k > 0.
C13_ConstructionValidates ==
    gen.pc = "done" =>
        LET c == gen.cfg
        IN  gen.outcome = "ok" <=>
                /\ c.sample_num >= 1
                /\ c.sample_num > 1 => c.do_sample
                /\ c.temperature >= 0
                /\ c.max_new_tokens > 0
                /\ 0 <= c.top_p /\ c.top_p <= 10
                /\ c.top_k > 0

\* sample_num=1, do_sample=False, top_p=0.9, top_k=50, max_new_tokens=16 and
\* temperature=0 is constructed
C13_Witness ==
    /\ gen.pc = "done"
    /\ gen.cfg = GenerationConfig(FALSE, 1, 0, 16, 9, 50)
    /\ gen.outcome = "ok"

\* what the last answer call returned is one answer and one prompt per
\* question, in question order: answer i is the first completion of prompt i,
\* prompt i is the template for its case with one more user turn that lists
\* the contexts as Context 1..n in order and then the question, and the
\* backend was sent sample_num = 1
AnswerContract ==
    LET last == asst.last
        questions == last.batch.questions
        contexts == last.batch.contexts
    IN  /\ last.outcome = "ok"
        /\ Len(last.response) = Len(questions)
        /\ Len(last.prompts) = Len(questions)
        /\ last.sent_sample_num = 1
        /\ \A i \in 1..Len(questions) :
              LET template == BaseTemplate(asst.response_type, Len(contexts[i]) > 0)
                  prompt == last.prompts[i]
                  content == prompt.history[Len(prompt.history)].content
                  n == Len(contexts[i])
              IN  /\ last.response[i] = [prompt |-> prompt, sample |-> 1]
                  /\ prompt.system = template.system
                  /\ prompt.demonstrations = template.demonstrations
                  /\ Len(prompt.history) = Len(template.history) + 1
                  /\ SubSeq(prompt.history, 1, Len(template.history)) = template.history
                  /\ prompt.history[Len(prompt.history)].role = "user"
                  /\ Len(content) = n + 1
                  /\ \A k \in 1..n :
                        /\ content[k].label = "Context"
                        /\ content[k].n = k
                        /\ content[k].text \in {contexts[i][k].text,
                                                contexts[i][k].full_text} \ {""}
                  /\ content[n + 1] = [label |-> "Question", n |-> 0,
                                       text |-> questions[i]]

C15_TemplatesAndCallerPromptKept ==
    /\ [](asst.pc = "ready" =>
            /\ asst.prompt_with_ctx = BaseTemplate(asst.response_type, TRUE)
            /\ asst.prompt_wo_ctx = BaseTemplate(asst.response_type, FALSE))
    /\ [][render.pc # "idle" => render'.prompt = render.prompt]_vars

\* an assistant of response type original has answered a batch of two
\* questions, one with contexts and one without
C15_Witness ==
    /\ asst.pc = "ready"
    /\ asst.response_type = "original"
    /\ asst.last.op = "answer"
    /\ asst.last.outcome = "ok"
    /\ Len(asst.last.prompts) = 2
    /\ Len(asst.last.batch.contexts[1]) > 0
    /\ Len(asst.last.batch.contexts[2]) = 0
    /\ \A i \in 1..2 : Len(asst.last.prompts[i].history) = 1

\* C16: for every input batch and every order in which the per-item requests
\* complete, chat, async_chat, download and async_download return a list of
\* the same length as the input in which position i holds the result of
\* input item i.
C16_FanOutKeepsInputOrder ==
    fan.pc = "done" =>
        /\ Len(fan.out) = Len(fan.input.value)
        /\ \A i \in 1..Len(fan.out) : fan.out[i] = RequestResult(fan.input.value[i])

\* a parallel call over three items, not all the same, returned after its
\* requests completed in the reverse of the input order
C16_Witness ==
    /\ fan.pc = "done"
    /\ fan.op.mode # "sequential"
    /\ fan.completed = <<3, 2, 1>>
    /\ fan.items[1] # fan.items[3]

\* C17: while a default asynchronous operation is in flight, the synchronous
\* work it wraps does not run on the thread of the caller's event loop, so
\* the other task of the caller is able to take a step before the operation
\* completes.
C17_SyncWorkOffTheLoopThread ==
    aio.pc = "working" =>
        /\ aio.thread # "loop"
        /\ ENABLED OtherTaskStep \/ aio.during = MaxOtherSteps

\* C18: an insertion or a search issued on a dense index whose is_trained is
\* false (no index, or an index that is not trained) fails with an error and
\* leaves the index as it was.
C18_UntrainedIndexRejectsAddAndSearch ==
    (/\ dix.pc = "ready"
     /\ dix.last.op \in {"add_embeddings", "search"}
     /\ ~dix.last.trained)
        => (dix.last.out = "error" /\ dix.index = dix.last.before)

\* the uniqueness invariant of one registry: no name is both a main name and
\* an alias, and every alias leads to a registered main name
UniqueNames(reg) ==
    /\ DOMAIN reg.items \cap DOMAIN reg.shortcuts = {}
    /\ \A s \in DOMAIN reg.shortcuts : reg.shortcuts[s] \in DOMAIN reg.items

\* every name of the operand resolves in the result to the operand's entry
ResolvesAsIn(result, operand) ==
    \A name \in RegNames(operand.items, operand.shortcuts) :
        GetItem(result.items, result.shortcuts, name)
            = GetItem(operand.items, operand.shortcuts, name)

\* C19: the merge of two registries that satisfy the uniqueness invariant
\* satisfies it too, and every name of either operand resolves in the result
\* to the entry it resolved to in its operand: no name is rebound and no name
\* is both a main name and an alias, with or without a collision.
C19_MergeKeepsUniqueness ==
    (/\ mrg.pc = "merged"
     /\ UniqueNames(mrg.self)
     /\ UniqueNames(mrg.register))
        => /\ UniqueNames(mrg.result)
           /\ ResolvesAsIn(mrg.result, mrg.self)
           /\ ResolvesAsIn(mrg.result, mrg.register)

\* operands without a common name: every name resolves as in its operand
DisjointMergeResolves ==
    (/\ mrg.pc = "merged"
     /\ RegNames(mrg.self.items, mrg.self.shortcuts)
            \cap RegNames(mrg.register.items, mrg.register.shortcuts) = {})
        => /\ ResolvesAsIn(mrg.result, mrg.self)
           /\ ResolvesAsIn(mrg.result, mrg.register)

\* C20: for every ChatPrompt p, with or without a system turn, to_json(p)
\* succeeds, and from_json of the document it wrote succeeds and yields a
\* prompt with the system turn, the history and the demonstrations of p.
C20_JsonRoundTrip ==
    /\ cpOp.op = "to_json" => cpOp.outcome = "ok"
    /\ cpOp.op = "from_json" => (cpOp.outcome = "ok" /\ cpOp.loaded = cpOp.saved)

\* the round trip of a prompt that has a system turn and holds only turns
RoundTripWithSystemTurn ==
    /\ (/\ cpOp.op = "to_json"
        /\ cpOp.saved.system # None
        /\ \A i \in 1..Len(cpOp.saved.history) : cpOp.saved.history[i].cls = "ChatTurn")
          => cpOp.outcome = "ok"
    /\ cpOp.op = "from_json" => (cpOp.outcome = "ok" /\ cpOp.loaded = cpOp.saved)

\* C21: a download makes at most max_retries GET attempts and stops at the
\* first successful one; when every attempt failed it yields no value if
\* skip_bad_response is enabled and raises the failure if it is disabled.
C21_RetryThenSkipOrRaise ==
    dl.pc # "idle" =>
        /\ Len(dl.attempts) <= dl.max_retries
        /\ \A i \in 1..(Len(dl.attempts) - 1) : ~dl.attempts[i]
        /\ dl.pc = "done" =>
              IF dl.attempts[Len(dl.attempts)] THEN dl.out = "text"
              ELSE /\ Len(dl.attempts) = dl.max_retries
                   /\ dl.out = (IF dl.skip_bad_response THEN "None" ELSE "raise")

\* the attempts of a download, and its outcome when failures are skipped
RetryThenSkip ==
    dl.pc # "idle" =>
        /\ Len(dl.attempts) <= dl.max_retries
        /\ \A i \in 1..(Len(dl.attempts) - 1) : ~dl.attempts[i]
        /\ dl.pc = "done" =>
              IF dl.attempts[Len(dl.attempts)] THEN dl.out = "text"
              ELSE /\ Len(dl.attempts) = dl.max_retries
                   /\ dl.skip_bad_response => dl.out = "None"

\* example i of the batch is successful: some gold answer is a substring of
\* some retrieved text
Successful(example) ==
    \E g \in 1..Len(example.golds) : \E t \in 1..Len(example.ctxs) :
        Contains(example.golds[g], example.ctxs[t])

\* what compute returned is the success map of the batch and its quotient
ReturnedSuccessRate ==
    /\ sr.returned.out = "ok"
    /\ Len(sr.returned.success_map) = Len(sr.batch)
    /\ \A i \in 1..Len(sr.batch) : sr.returned.success_map[i] = Successful(sr.batch[i])
    /\ sr.returned.score.den = Len(sr.batch)
    /\ sr.returned.score.num = Cardinality({i \in 1..Len(sr.batch) : Successful(sr.batch[i])})

\* C22: for every batch that has an example, also one whose retrieved list
\* or gold list is empty, compute returns the per-example success map in
\* input order (example i successful exactly when a gold answer of i is a
\* substring of a retrieved text of i) and the number of successful examples
\* over the number of examples.
C22_SuccessRate ==
    (sr.pc = "done" /\ sr.batch # <<>>) => ReturnedSuccessRate

\* the same for the batches whose examples all have a retrieved text
SuccessRateOfRetrieved ==
    (/\ sr.pc = "done"
     /\ sr.batch # <<>>
     /\ \A i \in 1..Len(sr.batch) : sr.batch[i].ctxs # <<>>) => ReturnedSuccessRate

\* the state after the exit of a block is the state before its entry, and
\* the error in flight is the error of the body
ExitedAsEntered ==
    /\ ev.environ = ev.last.frame.environ_before
    /\ ev.environ["KEY"] = ev.last.frame.original_value
    /\ ev.error = ev.last.error_of_body

\* C23: when the body of a set_env_var block starts the variable has the
\* given value; after the block exits, whatever the body did (returned,
\* raised, set or deleted the variable) and at every nesting depth, the
\* variable has its value of before the entry or is absent if it was absent,
\* every other variable is unchanged and the error of the body, if any, is
\* the error that propagates.
C23_ScopedVariableRestored ==
    ev.pc = "run" =>
        /\ ev.last.op = "enter" => ev.environ["KEY"] = ev.last.value
        /\ ev.last.op = "exit" => ExitedAsEntered

\* the same for the exits that do not find an absent variable still absent
RestoredUnlessDeleted ==
    (/\ ev.pc = "run"
     /\ ev.last.op = "exit"
     /\ ~(ev.last.frame.original_value = Absent /\ ev.error = "KeyError"))
        => ExitedAsEntered

\* the attempts of a search: at most retry_times, none after a success, and
\* no write of the error-state file by a search that succeeded
BoundedAttempts ==
    /\ es.attempts <= es.retry_times
    /\ es.pc = "msearch" => es.events = <<>>
    /\ es.pc = "done" => es.events \in {<<"return">>, <<"raise">>, <<"write", "raise">>}
    /\ (es.pc = "done" /\ es.events # <<"return">>) => es.attempts = es.retry_times

\* C24: for every retry_times >= 1 a search calls msearch at most
\* retry_times times and stops at the first success; when every attempt
\* failed, the arguments of the failing call are written to the error-state
\* file before the error is raised; a search with a successful attempt does
\* not write the file.
C24_RetryThenPersistAndRaise ==
    es.pc # "idle" =>
        /\ BoundedAttempts
        /\ (es.pc = "done" /\ es.events # <<"return">>) =>
              /\ es.events = <<"write", "raise">>
              /\ es.file = [args |-> <<>>, kwargs |-> [body |-> es.body]]

\* the same for retry_times >= 2
RetryThenPersistWhenRetrying ==
    (es.pc # "idle" /\ es.retry_times > 1) =>
        /\ BoundedAttempts
        /\ (es.pc = "done" /\ es.events # <<"return">>) =>
              /\ es.events = <<"write", "raise">>
              /\ es.file = [args |-> <<>>, kwargs |-> [body |-> es.body]]

\* every caller has returned from its wrapper
AllRecorded ==
    /\ tm # [pc |-> "idle"]
    /\ \A c \in Callers : tm.pc[c] \in {"done", "absent"}

\* C25: after n concurrent calls under one timer name have all returned,
\* the series of the name holds exactly n durations, also when the series
\* did not exist before the calls.
C25_NoDurationLost ==
    AllRecorded => (tm.timers # None /\ Len(tm.lists[tm.timers.list]) = tm.n)

\* the same when the series exists before the first call
NoDurationLostInExistingSeries ==
    (AllRecorded /\ tm.existed) => (tm.timers # None /\ Len(tm.lists[tm.timers.list]) = tm.n)

\* one score per candidate, the score at position i that of candidate i
ScoresOfCandidates ==
    /\ Len(rk.returned.scores) = Len(rk.relevance)
    /\ \A i \in 1..Len(rk.relevance) : rk.returned.scores[i] = rk.relevance[i]

\* C26: for every candidate list and every order in which the endpoint
\* lists its results, _rank and _async_rank return one relevance score per
\* candidate, and the score at position i is the score of candidate i.
C26_ScorePerCandidateInPlace ==
    rk.pc = "done" => ScoresOfCandidates

\* the same when the endpoint lists the results in the order of the candidates
ScoresInPlaceForResultsInInputOrder ==
    (/\ rk.pc = "done"
     /\ \A k \in 1..Len(rk.results) : rk.results[k].index = k) => ScoresOfCandidates

\* always one score per candidate
OneScorePerCandidate ==
    rk.pc = "done" => Len(rk.returned.scores) = Len(rk.relevance)

\* C27: for every feedback_depth k and every behaviour of the judge and the
\* refiner, a search makes at most k + 1 retrieval calls, its work queue
\* never holds more than one entry, and the search terminates.
C27_SearchTerminatesWithinDepth ==
    /\ [](bm25.pc # "idle" =>
            /\ Len(CallsOfKind("retrieve")) <= bm25.feedback_depth + 1
            /\ Len(bm25.search_stack) <= 1)
    /\ (bm25.pc # "idle") ~> (bm25.pc = "done")

\* a search whose judge never was satisfied: k + 1 retrieval calls, the
\* last branch dropped at the maximum depth, the queue empty
C27_Witness ==
    /\ bm25.pc = "done"
    /\ bm25.out = "ok"
    /\ bm25.feedback_depth = MaxFeedbackDepth
    /\ Len(CallsOfKind("retrieve")) = bm25.feedback_depth + 1
    /\ \A i \in 1..Len(bm25.calls) :
          bm25.calls[i].kind = "verify" => ~bm25.calls[i].result
    /\ bm25.search_stack = <<>>

\* C28: a ChatPrompt constructed without history and demonstrations
\* arguments has an empty history and no demonstrations, whatever was done
\* before to other instances, and an update of one instance leaves the
\* history of every other instance as it was.
C28_InstancesShareNoState ==
    /\ (sh.last.op = "construct" /\ ~sh.last.with_arguments) =>
          /\ sh.lists[sh.prompts[Len(sh.prompts)].history] = <<>>
          /\ sh.lists[sh.prompts[Len(sh.prompts)].demonstrations] = <<>>
    /\ sh.last.op = "update" =>
          \A q \in 1..Len(sh.prompts) :
              q # sh.last.prompt => Histories(sh)[q] = sh.last.before[q]

\* the same for instances that were all given their own lists
InstancesWithOwnListsShareNoState ==
    (\A p \in 1..Len(sh.prompts) : sh.prompts[p].history # DefaultHistory)
        => C28_InstancesShareNoState

\* one instance for all callers, configured at most once, and once as soon
\* as the constructing thread has left the lock
OneInstanceConfiguredOnce ==
    /\ lm.created <= 1
    /\ lm.configured <= 1
    /\ \A t \in Threads : lm.pc[t] \in {"get", "done", "AttributeError"} => lm.got[t] = 1
    /\ (lm.instance # 0 /\ lm.lock = 0) => lm.configured = 1

CleanOnlyOnReinit ==
    \A i \in 1..Len(tool.calls) :
        tool.calls[i] = "clean" =>
            /\ tool.reinit
            /\ tool.stored > 0
            /\ \A j \in 1..i : tool.calls[j] # "add_passages"

\* C30: in every run of the tool clean is invoked only when reinit is set
\* and the store is non-empty and only before add_passages, and no operation
\* of the retriever is invoked after its close().
C30_NothingAfterClose ==
    tool.pc # "idle" =>
        /\ CleanOnlyOnReinit
        /\ \A i \in 1..Len(tool.calls) :
              tool.calls[i] = "close" => i = Len(tool.calls)

\* the half of C30 about clean
CleanOnlyOnReinitInEveryRun ==
    tool.pc # "idle" => CleanOnlyOnReinit

====
